---- MODULE Spec2Model ----
(***************************************************************************)
(* A model of pep8.py: the Document, the token segmenter (logical_lines),  *)
(* the logical-line builder (build_line_from_tokens), the offset-to-       *)
(* location resolution and the Checker that drives them.                   *)
(*                                                                         *)
(* Text is a sequence of one-character strings.  Python indices are        *)
(* 0-based; the helpers Slice and At take Python indices.                  *)
(* pep8.py is Python 2 code (print statement, __metaclass__, cStringIO),   *)
(* so Python 2 semantics are modelled throughout.                          *)
(***************************************************************************)
EXTENDS Integers, Sequences, FiniteSets, TLC

\* Longest source file (in physical lines) that is analysed.
MaxLines == 3

----------------------------------------------------------------------------
\* Python str helpers

Min(a, b) == IF a < b THEN a ELSE b
Max(a, b) == IF a > b THEN a ELSE b

\* a slice bound as Python normalises it: negative counts from the end,
\* and the result is clamped to 0..len(s)
SliceIndex(s, k) == IF k < 0 THEN Max(Len(s) + k, 0) ELSE Min(k, Len(s))
\* s[a:b]
Slice(s, a, b) == SubSeq(s, SliceIndex(s, a) + 1, SliceIndex(s, b))
\* s[a:]
SliceFrom(s, a) == SubSeq(s, SliceIndex(s, a) + 1, Len(s))
\* s[k], a negative k counting from the end
At(s, k) == IF k >= 0 THEN s[k + 1] ELSE s[Len(s) + k + 1]

\* the vertical tab character (\x0b), which a TLA+ string cannot hold
VT == "VT"

\* the characters str.strip() / lstrip() / rstrip() remove by default
\* (string.whitespace)
WHITESPACE == {" ", "\t", "\n", VT, "\f", "\r"}

RECURSIVE lstrip(_, _)
lstrip(s, chars) ==
    IF s # <<>> /\ Head(s) \in chars THEN lstrip(Tail(s), chars) ELSE s

RECURSIVE rstrip(_, _)
rstrip(s, chars) ==
    IF s # <<>> /\ s[Len(s)] \in chars
    THEN rstrip(SubSeq(s, 1, Len(s) - 1), chars) ELSE s

strip(s) == lstrip(rstrip(s, WHITESPACE), WHITESPACE)

startswith(s, p) == Len(p) <= Len(s) /\ SubSeq(s, 1, Len(p)) = p
endswith(s, p) == Len(p) <= Len(s) /\ SubSeq(s, Len(s) - Len(p) + 1, Len(s)) = p

\* sub in s  (substring test; the empty string is in every string)
contains(s, sub) ==
    \E k \in 0..(Len(s) - Len(sub)) : SubSeq(s, k + 1, k + Len(sub)) = sub

\* s.find(sub): the lowest index, -1 when absent
find(s, sub) ==
    IF contains(s, sub)
    THEN CHOOSE k \in 0..(Len(s) - Len(sub)) :
            /\ SubSeq(s, k + 1, k + Len(sub)) = sub
            /\ \A j \in 0..(k - 1) : SubSeq(s, j + 1, j + Len(sub)) # sub
    ELSE -1

\* s.count(c) for a one-character c
count(s, c) == Cardinality({k \in 1..Len(s) : s[k] = c})

\* c * n
Repeat(c, n) == [k \in 1..n |-> c]

----------------------------------------------------------------------------
\* Program constants

INDENTATION_WHITESPACE == <<" ", "\t">>
OPEN_PARENS == <<"(", "[", "{">>
CLOSE_PARENS == <<")", "]", "}">>
SKIP_TOKENS == {"COMMENT", "NL", "INDENT", "DEDENT", "NEWLINE"}

\* the members of a string used as a set of characters
Chars(s) == {s[k] : k \in 1..Len(s)}

----------------------------------------------------------------------------
\* Source files.  A physical line is written as its lexemes, each with the
\* whitespace in front of it, then the whitespace before the line end and the
\* line terminator (empty for a last line that has none).  The text of the
\* line, which is what Document.lines holds, is their concatenation; the
\* tokenizer's tokens are computed from the same lexemes.

Item(ws, type, text) == [ws |-> ws, type |-> type, text |-> text]
SrcLine(items, trail, eol) == [items |-> items, trail |-> trail, eol |-> eol]

EOL == <<"\n">>
S1 == <<" ">>
S4 == <<" ", " ", " ", " ">>

\* a = 1
L_assign ==
    SrcLine(<<Item(<<>>, "NAME", <<"a">>), Item(S1, "OP", <<"=">>),
              Item(S1, "NUMBER", <<"1">>)>>, <<>>, EOL)
\* x=1
L_tight ==
    SrcLine(<<Item(<<>>, "NAME", <<"x">>), Item(<<>>, "OP", <<"=">>),
              Item(<<>>, "NUMBER", <<"1">>)>>, <<>>, EOL)
\*     x=1
L_ind_tight ==
    SrcLine(<<Item(S4, "NAME", <<"x">>), Item(<<>>, "OP", <<"=">>),
              Item(<<>>, "NUMBER", <<"1">>)>>, <<>>, EOL)
\* if a:
L_if ==
    SrcLine(<<Item(<<>>, "NAME", <<"i", "f">>), Item(S1, "NAME", <<"a">>),
              Item(<<>>, "OP", <<":">>)>>, <<>>, EOL)
\* f( a,
L_open ==
    SrcLine(<<Item(<<>>, "NAME", <<"f">>), Item(<<>>, "OP", <<"(">>),
              Item(S1, "NAME", <<"a">>), Item(<<>>, "OP", <<",">>)>>, <<>>, EOL)
\*     b)
L_close ==
    SrcLine(<<Item(S4, "NAME", <<"b">>), Item(<<>>, "OP", <<")">>)>>, <<>>, EOL)
\* (an empty line)
L_blank == SrcLine(<<>>, <<>>, EOL)
\* # c
L_comment == SrcLine(<<Item(<<>>, "COMMENT", <<"#", " ", "c">>)>>, <<>>, EOL)
\* a = 1 # c
L_inline ==
    SrcLine(<<Item(<<>>, "NAME", <<"a">>), Item(S1, "OP", <<"=">>),
              Item(S1, "NUMBER", <<"1">>),
              Item(S1, "COMMENT", <<"#", " ", "c">>)>>, <<>>, EOL)
\* )
L_unbal == SrcLine(<<Item(<<>>, "OP", <<")">>)>>, <<>>, EOL)
\* a backslash and the line end: an explicit line continuation
L_cont == SrcLine(<<Item(<<>>, "CONT", <<"\\">>)>>, <<>>, EOL)
\* a = 1   without a line terminator
L_noeol ==
    SrcLine(<<Item(<<>>, "NAME", <<"a">>), Item(S1, "OP", <<"=">>),
              Item(S1, "NUMBER", <<"1">>)>>, <<>>, <<>>)

\* lines that end with a terminator, and lines that do not (readlines() can
\* return such a line only as the last one)
TerminatedLines ==
    {L_assign, L_tight, L_ind_tight, L_if, L_open, L_close, L_blank,
     L_comment, L_inline, L_unbal, L_cont}
UnterminatedLines == {L_noeol}

\* Lines of definitions, decorators and docstrings, and lines indented by 2, 4
\* and 8 columns and by tabs.
S2 == <<" ", " ">>
S8 == S4 \o S4
DefItems(ws) ==
    <<Item(ws, "NAME", <<"d", "e", "f">>), Item(S1, "NAME", <<"f">>),
      Item(<<>>, "OP", <<"(">>), Item(<<>>, "OP", <<")">>), Item(<<>>, "OP", <<":">>)>>
DecoratorItems(ws) == <<Item(ws, "OP", <<"@">>), Item(<<>>, "NAME", <<"d">>)>>
AssignItems(ws) ==
    <<Item(ws, "NAME", <<"a">>), Item(S1, "OP", <<"=">>), Item(S1, "NUMBER", <<"1">>)>>
IfItems(ws) ==
    <<Item(ws, "NAME", <<"i", "f">>), Item(S1, "NAME", <<"a">>),
      Item(<<>>, "OP", <<":">>)>>
\* def f():
L_def == SrcLine(DefItems(<<>>), <<>>, EOL)
\*     def f():
L_ind_def == SrcLine(DefItems(S4), <<>>, EOL)
\* class A:
L_class ==
    SrcLine(<<Item(<<>>, "NAME", <<"c", "l", "a", "s", "s">>), Item(S1, "NAME", <<"A">>),
              Item(<<>>, "OP", <<":">>)>>, <<>>, EOL)
\* @d
L_deco == SrcLine(DecoratorItems(<<>>), <<>>, EOL)
\*     @d
L_ind_deco == SrcLine(DecoratorItems(S4), <<>>, EOL)
\*     """d"""
L_doc ==
    SrcLine(<<Item(S4, "STRING", <<"\"", "\"", "\"", "d", "\"", "\"", "\"">>)>>,
            <<>>, EOL)
\*     a = 1
L_ind_assign == SrcLine(AssignItems(S4), <<>>, EOL)
\*   a = 1
L_ind2_assign == SrcLine(AssignItems(S2), <<>>, EOL)
\*         a = 1
L_ind8_assign == SrcLine(AssignItems(S8), <<>>, EOL)
\* a = 1   after two tabs and a space
L_tabs_assign == SrcLine(AssignItems(<<"\t", "\t", " ">>), <<>>, EOL)
\*   if a:
L_ind2_if == SrcLine(IfItems(S2), <<>>, EOL)

\* if a == 0:
L_if_eq ==
    SrcLine(<<Item(<<>>, "NAME", <<"i", "f">>), Item(S1, "NAME", <<"a">>),
              Item(S1, "OP", <<"=", "=">>), Item(S1, "NUMBER", <<"0">>),
              Item(<<>>, "OP", <<":">>)>>, <<>>, EOL)
\* b = 1   after the indentation ws
AssignBItems(ws) ==
    <<Item(ws, "NAME", <<"b">>), Item(S1, "OP", <<"=">>), Item(S1, "NUMBER", <<"1">>)>>
\* b = 1   after one tab
L_tab_b == SrcLine(AssignBItems(<<"\t">>), <<>>, EOL)
\* b = 1   after 8 spaces
L_ind8_b == SrcLine(AssignBItems(S8), <<>>, EOL)
\* b = 1   after 4 spaces and a tab
L_mixed_b == SrcLine(AssignBItems(S4 \o <<"\t">>), <<>>, EOL)
\* a = 1   after one tab
L_tab_assign == SrcLine(AssignItems(<<"\t">>), <<>>, EOL)

BlockLines ==
    {L_def, L_ind_def, L_class, L_deco, L_ind_deco, L_doc, L_ind_assign,
     L_ind2_assign, L_ind8_assign, L_tabs_assign, L_ind2_if,
     L_if_eq, L_tab_b, L_ind8_b, L_mixed_b, L_tab_assign}

\* Last lines with and without a terminator, with and without whitespace at
\* their end.
\* a = 1   followed by two spaces
L_trail == SrcLine(AssignItems(<<>>), S2, EOL)
\* a = 1   followed by two spaces, without a line terminator
L_noeol_trail == SrcLine(AssignItems(<<>>), S2, <<>>)
\* a = 1   followed by a tab, without a line terminator
L_noeol_tab == SrcLine(AssignItems(<<>>), <<"\t">>, <<>>)
\* two spaces, without a line terminator
L_noeol_spaces == SrcLine(<<>>, S2, <<>>)

EndLines == {L_trail, L_noeol_trail, L_noeol_tab, L_noeol_spaces}

\* Lines of a call that goes on in the next line.
\* f(
L_call_open == SrcLine(<<Item(<<>>, "NAME", <<"f">>), Item(<<>>, "OP", <<"(">>)>>, <<>>, EOL)
\* f(a
L_call_arg ==
    SrcLine(<<Item(<<>>, "NAME", <<"f">>), Item(<<>>, "OP", <<"(">>),
              Item(<<>>, "NAME", <<"a">>)>>, <<>>, EOL)
\* f(a,
L_call_comma ==
    SrcLine(<<Item(<<>>, "NAME", <<"f">>), Item(<<>>, "OP", <<"(">>),
              Item(<<>>, "NAME", <<"a">>), Item(<<>>, "OP", <<",">>)>>, <<>>, EOL)

BracketLines == {L_call_open, L_call_arg, L_call_comma}

\* Lines with operators.
Nm(ws, name) == Item(ws, "NAME", <<name>>)
Op(ws, text) == Item(ws, "OP", text)
Nr(ws, digit) == Item(ws, "NUMBER", <<digit>>)
\* i=i+1
L_i_eq ==
    SrcLine(<<Nm(<<>>, "i"), Op(<<>>, <<"=">>), Nm(<<>>, "i"), Op(<<>>, <<"+">>),
              Nr(<<>>, "1")>>, <<>>, EOL)
\* x = x*2 - 1
L_x_times ==
    SrcLine(<<Nm(<<>>, "x"), Op(S1, <<"=">>), Nm(S1, "x"), Op(<<>>, <<"*">>),
              Nr(<<>>, "2"), Op(S1, <<"-">>), Nr(S1, "1")>>, <<>>, EOL)
\* c = a -4
L_a_minus ==
    SrcLine(<<Nm(<<>>, "c"), Op(S1, <<"=">>), Nm(S1, "a"), Op(S1, <<"-">>),
              Nr(<<>>, "4")>>, <<>>, EOL)
\* a = -1
L_neg == SrcLine(<<Nm(<<>>, "a"), Op(S1, <<"=">>), Op(S1, <<"-">>), Nr(<<>>, "1")>>, <<>>, EOL)
\* f(a=1)
L_kwarg ==
    SrcLine(<<Nm(<<>>, "f"), Op(<<>>, <<"(">>), Nm(<<>>, "a"), Op(<<>>, <<"=">>),
              Nr(<<>>, "1"), Op(<<>>, <<")">>)>>, <<>>, EOL)
\* f = lambda a=1: a
L_lambda ==
    SrcLine(<<Nm(<<>>, "f"), Op(S1, <<"=">>),
              Item(S1, "NAME", <<"l", "a", "m", "b", "d", "a">>), Nm(S1, "a"),
              Op(<<>>, <<"=">>), Nr(<<>>, "1"), Op(<<>>, <<":">>), Nm(S1, "a")>>, <<>>, EOL)
\* -a
L_minus_a == SrcLine(<<Op(<<>>, <<"-">>), Nm(<<>>, "a")>>, <<>>, EOL)
\*     -a
L_ind_minus_a == SrcLine(<<Op(S4, <<"-">>), Nm(<<>>, "a")>>, <<>>, EOL)

OperatorLines ==
    {L_i_eq, L_x_times, L_a_minus, L_neg, L_kwarg, L_lambda, L_minus_a, L_ind_minus_a}

RECURSIVE SeqsUpTo(_, _)
SeqsUpTo(S, n) ==
    IF n = 0 THEN {<<>>}
    ELSE LET shorter == SeqsUpTo(S, n - 1)
         IN shorter \cup {Append(q, x) : q \in {r \in shorter : Len(r) = n - 1}, x \in S}

\* the source files analysed: 1..MaxLines physical lines
Sources ==
    {Append(q, x) : q \in SeqsUpTo(TerminatedLines, MaxLines - 1),
                    x \in TerminatedLines \cup UnterminatedLines}

RECURSIVE ItemsText(_)
ItemsText(items) ==
    IF items = <<>> THEN <<>>
    ELSE Head(items).ws \o Head(items).text \o ItemsText(Tail(items))

\* the text of a physical line, as readlines() returns it
LineText(l) == ItemsText(l.items) \o l.trail \o l.eol

----------------------------------------------------------------------------
\* The tokenizer (Python's tokenize.generate_tokens, which logical_lines
\* drives).  Three variants of it are modelled:
\*   "py25"   a comment on a line of its own is one COMMENT token whose text
\*            includes the line end, with no NL token after it (the
\*            behaviour logical_lines works around);
\*   "py27"   such a comment is a COMMENT token followed by an NL token;
\*   "py2716" as "py27", and a last line without a terminator gets an implicit
\*            NEWLINE token, emitted after the end of input has been read.
\* In "py25" and "py27" a last line without a terminator gets no NEWLINE.
TokenizerVariants == {"py25", "py27", "py2716"}

Tok(type, text, row, scol, ecol) ==
    [type |-> type, text |-> text, start |-> <<row, scol>>, end |-> <<row, ecol>>]

Last(q) == q[Len(q)]
Front(q) == SubSeq(q, 1, Len(q) - 1)

\* the column a run of leading whitespace reaches (tabsize 8, form feed -> 0)
RECURSIVE TokColumn(_, _)
TokColumn(ws, col) ==
    IF ws = <<>> THEN col
    ELSE TokColumn(Tail(ws),
                   IF Head(ws) = " " THEN col + 1
                   ELSE IF Head(ws) = "\t" THEN ((col \div 8) + 1) * 8
                   ELSE 0)

\* the tokens of the lexemes of one line, from position pos on
RECURSIVE ScanItems(_, _, _, _)
ScanItems(items, lnum, pos, parenlev) ==
    IF items = <<>>
    THEN [toks |-> <<>>, parenlev |-> parenlev, continued |-> FALSE, pos |-> pos]
    ELSE LET it == Head(items)
             s == pos + Len(it.ws)
             e == s + Len(it.text)
             lev == IF it.type = "OP" /\ it.text[1] \in Chars(OPEN_PARENS)
                    THEN parenlev + 1
                    ELSE IF it.type = "OP" /\ it.text[1] \in Chars(CLOSE_PARENS)
                    THEN parenlev - 1
                    ELSE parenlev
         IN IF it.type = "CONT"
            THEN [toks |-> <<>>, parenlev |-> parenlev, continued |-> TRUE, pos |-> e]
            ELSE LET rest == ScanItems(Tail(items), lnum, e, lev)
                 IN [rest EXCEPT !.toks = <<Tok(it.type, it.text, lnum, s, e)>> \o @]

\* the lexemes of a line and the token of its line end
ScanLine(l, lnum, parenlev) ==
    LET sc == ScanItems(l.items, lnum, 0, parenlev)
        nlpos == sc.pos + Len(l.trail)
    IN IF sc.continued \/ l.eol = <<>>
       THEN sc
       ELSE [sc EXCEPT !.toks = @ \o
                <<Tok(IF sc.parenlev > 0 THEN "NL" ELSE "NEWLINE",
                      l.eol, lnum, nlpos, nlpos + Len(l.eol))>>]

\* the DEDENT tokens of a line that starts at `column`
RECURSIVE PopIndents(_, _, _, _)
PopIndents(indents, column, lnum, pos) ==
    IF column < Last(indents)
    THEN IF column \notin {indents[k] : k \in 1..Len(indents)}
         THEN [ok |-> FALSE, indents |-> indents, toks |-> <<>>]
         ELSE LET r == PopIndents(Front(indents), column, lnum, pos)
              IN [r EXCEPT !.toks = <<Tok("DEDENT", <<>>, lnum, pos, pos)>> \o @]
    ELSE [ok |-> TRUE, indents |-> indents, toks |-> <<>>]

\* The tokens of physical line l, read as line number lnum in tokenizer state
\* st = [parenlev, indents, continued].  outcome: "ok"; "eof" (a last line of
\* whitespace only, without terminator, ends the input); "IndentationError".
TokenizeLine(l, lnum, st, variant) ==
    LET line == LineText(l)
        max == Len(line)
        ws == SubSeq(line, 1, max - Len(lstrip(line, {" ", "\t", "\f"})))
        pos == Len(ws)
        column == TokColumn(ws, 0)
        same == [toks |-> <<>>, parenlev |-> st.parenlev, indents |-> st.indents,
                 continued |-> st.continued, outcome |-> "ok"]
    IN IF st.parenlev = 0 /\ ~st.continued
       THEN \* a new statement
            IF pos = max THEN [same EXCEPT !.outcome = "eof"]
            ELSE IF At(line, pos) \in {"#", "\r", "\n"}
            THEN \* a comment or a blank line: no INDENT, DEDENT or NEWLINE
                 IF At(line, pos) = "#" /\ variant # "py25"
                 THEN LET comment_token == rstrip(SliceFrom(line, pos), {"\r", "\n"})
                          nl_pos == pos + Len(comment_token)
                      IN [same EXCEPT !.toks =
                            <<Tok("COMMENT", comment_token, lnum, pos, nl_pos),
                              Tok("NL", SliceFrom(line, nl_pos), lnum, nl_pos, max)>>]
                 ELSE [same EXCEPT !.toks =
                         <<Tok(IF At(line, pos) = "#" THEN "COMMENT" ELSE "NL",
                               SliceFrom(line, pos), lnum, pos, max)>>]
            ELSE LET dent == IF column > Last(st.indents)
                             THEN [ok |-> TRUE, indents |-> Append(st.indents, column),
                                   toks |-> <<Tok("INDENT", ws, lnum, 0, pos)>>]
                             ELSE PopIndents(st.indents, column, lnum, pos)
                     sc == ScanLine(l, lnum, st.parenlev)
                 IN IF ~dent.ok THEN [same EXCEPT !.outcome = "IndentationError"]
                    ELSE [toks |-> dent.toks \o sc.toks, parenlev |-> sc.parenlev,
                          indents |-> dent.indents, continued |-> sc.continued,
                          outcome |-> "ok"]
       ELSE \* a continued statement
            LET sc == ScanLine(l, lnum, st.parenlev)
            IN [toks |-> sc.toks, parenlev |-> sc.parenlev, indents |-> st.indents,
                continued |-> sc.continued, outcome |-> "ok"]

\* The tokens at the end of input, read as line number lnum: the implicit
\* NEWLINE of "py2716", a DEDENT for every open indentation level, ENDMARKER.
\* outcome "TokenError": EOF in multi-line statement.
TokenizeEOF(lnum, st, variant, last_line) ==
    IF ~(st.parenlev = 0 /\ ~st.continued)
    THEN [toks |-> <<>>, outcome |-> "TokenError"]
    ELSE [toks |->
            (IF variant = "py2716" /\ last_line # <<>>
                /\ Last(last_line) \notin {"\r", "\n"}
             THEN <<Tok("NEWLINE", <<>>, lnum - 1, Len(last_line), Len(last_line) + 1)>>
             ELSE <<>>)
            \o [k \in 1..(Len(st.indents) - 1) |-> Tok("DEDENT", <<>>, lnum, 0, 0)]
            \o <<Tok("ENDMARKER", <<>>, lnum, 0, 0)>>,
          outcome |-> "ok"]

----------------------------------------------------------------------------
\* Helper functions of pep8.py

\* s[:len(s) - len(s.lstrip(indent_chars))]
leading_indentation(s, indent_chars) ==
    Slice(s, 0, Len(s) - Len(lstrip(s, Chars(indent_chars))))

RECURSIVE indentation_level_from(_, _)
indentation_level_from(line, result) ==
    IF line = <<>> THEN result
    ELSE IF Head(line) = "\t"
         THEN indentation_level_from(Tail(line), (result \div 8) * 8 + 8)
    ELSE IF Head(line) = " "
         THEN indentation_level_from(Tail(line), result + 1)
    ELSE result

\* indentation_level with every tab counted as 8 more columns
RECURSIVE indentation_level_from_tab_adds_8(_, _)
indentation_level_from_tab_adds_8(line, result) ==
    IF line = <<>> THEN result
    ELSE IF Head(line) = "\t"
         THEN indentation_level_from_tab_adds_8(Tail(line), result + 8)
    ELSE IF Head(line) = " "
         THEN indentation_level_from_tab_adds_8(Tail(line), result + 1)
    ELSE result

indentation_level_tab_adds_8(line) == indentation_level_from_tab_adds_8(line, 0)

indentation_level(line) == indentation_level_from(line, 0)

\* mute_string without its step for triple quotes
mute_string_single_quotes(text) ==
    LET start0 == 1
        end == Len(text) - 1
        start == IF endswith(text, <<"\"">>) THEN start0 + find(text, <<"\"">>)
                 ELSE IF endswith(text, <<"'">>) THEN start0 + find(text, <<"'">>)
                 ELSE start0
    IN Slice(text, 0, start) \o Repeat("x", Max(end - start, 0)) \o SliceFrom(text, end)

mute_string(text) ==
    LET start0 == 1
        end0 == Len(text) - 1
        start1 == IF endswith(text, <<"\"">>) THEN start0 + find(text, <<"\"">>)
                  ELSE IF endswith(text, <<"'">>) THEN start0 + find(text, <<"'">>)
                  ELSE start0
        triple == \/ endswith(text, <<"\"", "\"", "\"">>)
                  \/ endswith(text, <<"'", "'", "'">>)
        start == IF triple THEN start1 + 2 ELSE start1
        end == IF triple THEN end0 - 2 ELSE end0
    IN Slice(text, 0, start) \o Repeat("x", Max(end - start, 0)) \o SliceFrom(text, end)

RECURSIVE JoinLines(_, _)
JoinLines(list_of_strings, indent_chars) ==
    IF list_of_strings = <<>> THEN <<>>
    ELSE leading_indentation(Head(list_of_strings), indent_chars)
         \o JoinLines(Tail(list_of_strings), indent_chars)

\* max((all_indentation.count(c), c) for c in ' \t')[1]: the larger count
\* wins, and on a tie the larger character, which is the space
most_common_indent_char(list_of_strings) ==
    LET all_indentation == JoinLines(list_of_strings, INDENTATION_WHITESPACE)
    IN IF count(all_indentation, " ") >= count(all_indentation, "\t")
       THEN " " ELSE "\t"

\* Document.__init__
Document(lines) ==
    [lines |-> lines, num_lines |-> Len(lines),
     indent_char |-> most_common_indent_char(lines), line_number |-> 0]

----------------------------------------------------------------------------
\* build_line_from_tokens

\* the loop over the tokens; `previous` is <<>> for None, else <<token>>
RECURSIVE build_loop_space_unless_both(_, _, _, _, _, _)
build_loop_space_unless_both(tokens, lines, mapping, logical, length, previous) ==
    IF tokens = <<>> THEN [mapping |-> mapping, logical |-> logical]
    ELSE
    LET token == Head(tokens) IN
    IF token.type \in SKIP_TOKENS
    THEN build_loop_space_unless_both(Tail(tokens), lines, mapping, logical, length,
                                      previous)
    ELSE
    LET text == IF token.type = "STRING" THEN mute_string(token.text) ELSE token.text
        fill ==
            IF previous = <<>> THEN <<>>
            ELSE LET end_line == previous[1].end[1]
                     end == previous[1].end[2]
                     start_line == token.start[1]
                     start == token.start[2]
                 IN IF end_line # start_line
                    THEN LET prev_text == At(lines[end_line], end - 1)
                         IN IF \/ prev_text = ","
                               \/ prev_text \notin Chars(OPEN_PARENS)
                               \/ ~contains(CLOSE_PARENS, text)
                            THEN <<" ">> ELSE <<>>
                    ELSE IF end # start
                    THEN Slice(lines[end_line], end, start)
                    ELSE <<>>
        length1 == length + Len(fill)
    IN build_loop_space_unless_both(Tail(tokens), lines,
                  Append(mapping, [offset |-> length1, token |-> token]),
                  logical \o fill \o text, length1 + Len(text), <<token>>)

RECURSIVE build_loop(_, _, _, _, _, _)
build_loop(tokens, lines, mapping, logical, length, previous) ==
    IF tokens = <<>> THEN [mapping |-> mapping, logical |-> logical]
    ELSE
    LET token == Head(tokens) IN
    IF token.type \in SKIP_TOKENS
    THEN build_loop(Tail(tokens), lines, mapping, logical, length, previous)
    ELSE
    LET text == IF token.type = "STRING" THEN mute_string(token.text) ELSE token.text
        fill ==
            IF previous = <<>> THEN <<>>
            ELSE LET end_line == previous[1].end[1]
                     end == previous[1].end[2]
                     start_line == token.start[1]
                     start == token.start[2]
                 IN IF end_line # start_line
                    THEN LET prev_text == At(lines[end_line], end - 1)
                         IN IF \/ prev_text = ","
                               \/ /\ prev_text \notin Chars(OPEN_PARENS)
                                  /\ ~contains(CLOSE_PARENS, text)
                            THEN <<" ">> ELSE <<>>
                    ELSE IF end # start
                    THEN Slice(lines[end_line], end, start)
                    ELSE <<>>
        length1 == length + Len(fill)
    IN build_loop(Tail(tokens), lines,
                  Append(mapping, [offset |-> length1, token |-> token]),
                  logical \o fill \o text, length1 + Len(text), <<token>>)

\* build_line_from_tokens after its loop, b being what the loop has built;
\* raises: "" when the builder returns, else the exception it raises
build_line_from_tokens_end(b, lines) ==
    LET logical_line == b.logical
    IN IF lstrip(logical_line, WHITESPACE) # logical_line
          \/ rstrip(logical_line, WHITESPACE) # logical_line
       THEN [raises |-> "AssertionError", full_logical_line |-> <<>>, mapping |-> <<>>]
       ELSE IF b.mapping = <<>>
       THEN [raises |-> "IndexError", full_logical_line |-> <<>>, mapping |-> <<>>]
       ELSE LET first_line == lines[b.mapping[1].token.start[1]]
                indent == Slice(first_line, 0, b.mapping[1].token.start[2])
            IN [raises |-> "", full_logical_line |-> indent \o logical_line,
                mapping |-> b.mapping]

build_line_from_tokens(tokens, lines) ==
    build_line_from_tokens_end(build_loop(tokens, lines, <<>>, <<>>, 0, <<>>), lines)

----------------------------------------------------------------------------
\* Line objects and the resolution of a diagnostic's column

\* None as the value of an attribute that may also hold a sequence or a
\* number
NoneObject == "None"

\* LogicalLine.__init__; line_number 0 stands for None
LogicalLine(logical_line, tokens, blank_lines, blank_lines_before_comment, token_offset_mapping) ==
    LET indentation == leading_indentation(logical_line, INDENTATION_WHITESPACE)
    IN [logical_line |-> logical_line,
        tokens |-> tokens,
        blank_lines |-> blank_lines,
        blank_lines_before_comment |-> blank_lines_before_comment,
        indent_level |-> indentation_level(indentation),
        dedented_line |-> SliceFrom(logical_line, Len(indentation)),
        line_number |-> 0,
        token_offset_mapping |-> token_offset_mapping]

\* a diagnostic's column: None, an int, or a (row, column) tuple
ColNone == [type |-> "NoneType", row |-> 0, col |-> 0]
ColInt(k) == [type |-> "int", row |-> 0, col |-> k]
ColTuple(rc) == [type |-> "tuple", row |-> rc[1], col |-> rc[2]]

\* PhysicalLine.original_location_for_column: the line number and the column
\* as it is, an int or a (row, column) tuple
physical_original_location_for_column(line_number, column) ==
    IF column.type = "NoneType" THEN <<line_number, 0>>
    ELSE IF column.type = "tuple" THEN <<line_number, <<column.row, column.col>>>>
    ELSE <<line_number, column.col>>

\* original_line_number and original_column before the for loop assigns
\* them: returning them raises UnboundLocalError
UnboundLocalError == <<"UnboundLocalError">>

\* the for loop of the tuple branch: `column >= token_offset` compares a
\* tuple with an int, which Python 2 orders by type name and so is always
\* true; the last entry of the mapping is the one that stays assigned
RECURSIVE location_loop(_, _, _)
location_loop(mapping, column, found) ==
    IF mapping = <<>> THEN found
    ELSE LET token_offset == Head(mapping).offset
             token == Head(mapping).token
         IN location_loop(Tail(mapping), column,
                          <<token.start[1], token.start[2] + column.col - token_offset>>)

\* LogicalLine.original_location_for_column: the location returned, or
\* UnboundLocalError when the mapping is empty and the loop assigns nothing
logical_original_location_for_column(line, column) ==
    IF column.type = "NoneType" THEN <<line.line_number, 0>>
    ELSE IF column.type = "tuple"
    THEN location_loop(line.token_offset_mapping, column, UnboundLocalError)
    ELSE <<line.line_number, column.col>>

----------------------------------------------------------------------------
\* Diagnostics.  A checker's find_error returns None or one error; None is
\* the empty sequence here and an error a one-element sequence.  An error
\* holds its code, its column and (for the CheckerErrorWithContext classes)
\* its context; check_line then sets error.line to the line checked.

None == <<>>
NoContext == [count |-> -1, text |-> <<>>]
\* the context of E302 and E303 (a number of blank lines) and of E2xx (a text)
CountContext(n) == [count |-> n, text |-> <<>>]
TextContext(t) == [count |-> -1, text |-> t]
Error(code, column, context) ==
    <<[code |-> code, column |-> column, context |-> context]>>

DEFAULT_MAX_LINE_LENGTH == 79

\* INDENT_REGEX.match(physical_line).group(1)
IndentMatch(physical_line) ==
    Slice(physical_line, 0, Len(physical_line) - Len(lstrip(physical_line, {" ", "\t"})))

\* the first offset of s at or after k whose character is not c, else -1
RECURSIVE FirstOffsetNot(_, _, _)
FirstOffsetNot(s, k, c) ==
    IF k >= Len(s) THEN -1
    ELSE IF At(s, k) # c THEN k
    ELSE FirstOffsetNot(s, k + 1, c)

----------------------------------------------------------------------------
\* Physical-line checkers: find_error(line, document), line = [physical_line,
\* line_number]

TabsOrSpaces(line, document) ==
    LET indent == IndentMatch(line.physical_line)
        offset == FirstOffsetNot(indent, 0, document.indent_char)
    IN IF offset >= 0 THEN Error("E101", ColInt(offset), NoContext) ELSE None

TabsObsolete(line, document) ==
    LET indent == IndentMatch(line.physical_line)
        column == find(indent, <<"\t">>)
    IN IF column >= 0 THEN Error("W191", ColInt(column), NoContext) ELSE None

rstrip_newlines(s) == rstrip(s, {"\n", "\r", "\f"})

TrailingWhitespace(line, document) ==
    LET without_newlines == rstrip_newlines(line.physical_line)
        without_spaces == rstrip(without_newlines, WHITESPACE)
    IN IF without_newlines # without_spaces /\ without_spaces = <<>>
       THEN Error("W293", ColNone, NoContext)
       ELSE IF without_newlines # without_spaces
       THEN Error("W291", ColInt(Len(without_spaces)), NoContext)
       ELSE None

TrailingBlankLines(line, document) ==
    IF strip(line.physical_line) = <<>> /\ line.line_number = document.num_lines
    THEN Error("W391", ColNone, NoContext) ELSE None

MissingNewline(line, document) ==
    IF rstrip(line.physical_line, WHITESPACE) = line.physical_line
    THEN Error("W292", ColInt(Len(line.physical_line)), NoContext) ELSE None

\* MaximumLineLength(max_line_length=max_line_length).find_error; the lines
\* modelled hold ASCII only, so the decoded length is the length
MaximumLineLength(max_line_length, line, document) ==
    LET stripped == rstrip(line.physical_line, WHITESPACE)
        length == Len(stripped)
    IN IF length > max_line_length
       THEN Error("E501", ColInt(max_line_length), NoContext) ELSE None

----------------------------------------------------------------------------
\* Constants of the logical-line checkers

BINARY_OPERATORS ==
    {
     <<"*", "*", "=">>, <<"*", "=">>, <<"+", "=">>, <<"-", "=">>, <<"!", "=">>, <<"<", ">">>,
     <<"%", "=">>, <<"^", "=">>, <<"&", "=">>, <<"|", "=">>, <<"=", "=">>, <<"/", "=">>,
     <<"/", "/", "=">>, <<"<", "=">>, <<">", "=">>, <<"<", "<", "=">>, <<">", ">", "=">>, <<"%">>,
     <<"^">>, <<"&">>, <<"|">>, <<"=">>, <<"/">>, <<"/", "/">>,
     <<"<">>, <<">">>, <<"<", "<">>}
UNARY_OPERATORS == {<<">", ">">>, <<"*", "*">>, <<"*">>, <<"+">>, <<"-">>}
OPERATORS == BINARY_OPERATORS \cup UNARY_OPERATORS

\* keyword.kwlist of Python 2
KEYWORDS ==
    {
     <<"a", "n", "d">>, <<"a", "s">>, <<"a", "s", "s", "e", "r", "t">>,
     <<"b", "r", "e", "a", "k">>, <<"c", "l", "a", "s", "s">>, <<"c", "o", "n", "t", "i", "n", "u", "e">>,
     <<"d", "e", "f">>, <<"d", "e", "l">>, <<"e", "l", "i", "f">>,
     <<"e", "l", "s", "e">>, <<"e", "x", "c", "e", "p", "t">>, <<"e", "x", "e", "c">>,
     <<"f", "i", "n", "a", "l", "l", "y">>, <<"f", "o", "r">>, <<"f", "r", "o", "m">>,
     <<"g", "l", "o", "b", "a", "l">>, <<"i", "f">>, <<"i", "m", "p", "o", "r", "t">>,
     <<"i", "n">>, <<"i", "s">>, <<"l", "a", "m", "b", "d", "a">>,
     <<"n", "o", "t">>, <<"o", "r">>, <<"p", "a", "s", "s">>,
     <<"p", "r", "i", "n", "t">>, <<"r", "a", "i", "s", "e">>, <<"r", "e", "t", "u", "r", "n">>,
     <<"t", "r", "y">>, <<"w", "h", "i", "l", "e">>, <<"w", "i", "t", "h">>,
     <<"y", "i", "e", "l", "d">>}
iskeyword(text) == text \in KEYWORDS
\* frozenset(keyword.kwlist + ['print']) - frozenset(['False', 'None', 'True'])
E225NOT_KEYWORDS == (KEYWORDS \cup {<<"p", "r", "i", "n", "t">>}) \ {<<"F", "a", "l", "s", "e">>, <<"N", "o", "n", "e">>, <<"T", "r", "u", "e">>}

\* \w and \s of the re module, for ASCII text
WordChars ==
    {"a", "b", "c", "d", "e", "f", "g", "h", "i", "j", "k", "l", "m", "n", "o",
     "p", "q", "r", "s", "t", "u", "v", "w", "x", "y", "z",
     "A", "B", "C", "D", "E", "F", "G", "H", "I", "J", "K", "L", "M", "N", "O",
     "P", "Q", "R", "S", "T", "U", "V", "W", "X", "Y", "Z",
     "0", "1", "2", "3", "4", "5", "6", "7", "8", "9", "_"}
SpaceChars == {" ", "\t", "\n", VT, "\f", "\r"}

\* the length of the longest run of characters of `set` in s from offset k
RECURSIVE RunLength(_, _, _)
RunLength(s, k, set) ==
    IF k < Len(s) /\ At(s, k) \in set THEN 1 + RunLength(s, k + 1, set) ELSE 0
\* the same for characters outside `set`
RECURSIVE RunLengthNot(_, _, _)
RunLengthNot(s, k, set) ==
    IF k < Len(s) /\ At(s, k) \notin set THEN 1 + RunLengthNot(s, k + 1, set) ELSE 0

----------------------------------------------------------------------------
\* Logical-line checkers: find_error(line, previous_line, document), line a
\* LogicalLine object, previous_line <<>> (None) or <<LogicalLine object>>.
\* document.lines gives the source line (token[4]) of a token.

source_line(token, document) ==
    IF token.start[1] <= Len(document.lines) THEN document.lines[token.start[1]]
    ELSE <<>>

\* DOCSTRING_REGEX.match(s): u?r?["']
DocstringMatch(s) ==
    LET a == IF startswith(s, <<"u">>) THEN 1 ELSE 0
        b == IF a < Len(s) /\ At(s, a) = "r" THEN a + 1 ELSE a
    IN b < Len(s) /\ At(s, b) \in {"\"", "'"}

\* BlankLines.find_error with the test for too many blank lines in front of the
\* test for a decorator
BlankLines_too_many_first(line, previous_line, document) ==
    IF line.line_number = 1 \/ previous_line = <<>> THEN None
    ELSE
    LET prev == previous_line[1]
        max_blank_lines == Max(line.blank_lines, line.blank_lines_before_comment)
    IN IF max_blank_lines > 2 \/ (line.indent_level # 0 /\ max_blank_lines = 2)
       THEN Error("E303", ColInt(0), CountContext(max_blank_lines))
       ELSE IF startswith(prev.dedented_line, <<"@">>)
       THEN IF max_blank_lines # 0 THEN Error("E304", ColNone, NoContext) ELSE None
       ELSE IF \/ startswith(line.dedented_line, <<"d", "e", "f", " ">>)
               \/ startswith(line.dedented_line, <<"c", "l", "a", "s", "s", " ">>)
               \/ startswith(line.dedented_line, <<"@">>)
       THEN IF line.indent_level # 0
            THEN IF ~(\/ max_blank_lines # 0
                      \/ prev.indent_level < line.indent_level
                      \/ DocstringMatch(prev.logical_line))
                 THEN Error("E301", ColNone, NoContext) ELSE None
            ELSE IF max_blank_lines # 2
                 THEN Error("E302", ColInt(0), CountContext(max_blank_lines)) ELSE None
       ELSE None

\* BlankLines.find_error with the blank lines after the last comment line only
BlankLines_last_run_only(line, previous_line, document) ==
    IF line.line_number = 1 \/ previous_line = <<>> THEN None
    ELSE
    LET prev == previous_line[1]
        max_blank_lines == line.blank_lines
    IN IF startswith(prev.dedented_line, <<"@">>)
       THEN IF max_blank_lines # 0 THEN Error("E304", ColNone, NoContext) ELSE None
       ELSE IF max_blank_lines > 2 \/ (line.indent_level # 0 /\ max_blank_lines = 2)
       THEN Error("E303", ColInt(0), CountContext(max_blank_lines))
       ELSE IF \/ startswith(line.dedented_line, <<"d", "e", "f", " ">>)
               \/ startswith(line.dedented_line, <<"c", "l", "a", "s", "s", " ">>)
               \/ startswith(line.dedented_line, <<"@">>)
       THEN IF line.indent_level # 0
            THEN IF ~(\/ max_blank_lines # 0
                      \/ prev.indent_level < line.indent_level
                      \/ DocstringMatch(prev.logical_line))
                 THEN Error("E301", ColNone, NoContext) ELSE None
            ELSE IF max_blank_lines # 2
                 THEN Error("E302", ColInt(0), CountContext(max_blank_lines)) ELSE None
       ELSE None

BlankLines(line, previous_line, document) ==
    IF line.line_number = 1 \/ previous_line = <<>> THEN None
    ELSE
    LET prev == previous_line[1]
        max_blank_lines == Max(line.blank_lines, line.blank_lines_before_comment)
    IN IF startswith(prev.dedented_line, <<"@">>)
       THEN IF max_blank_lines # 0 THEN Error("E304", ColNone, NoContext) ELSE None
       ELSE IF max_blank_lines > 2 \/ (line.indent_level # 0 /\ max_blank_lines = 2)
       THEN Error("E303", ColInt(0), CountContext(max_blank_lines))
       ELSE IF \/ startswith(line.dedented_line, <<"d", "e", "f", " ">>)
               \/ startswith(line.dedented_line, <<"c", "l", "a", "s", "s", " ">>)
               \/ startswith(line.dedented_line, <<"@">>)
       THEN IF line.indent_level # 0
            THEN IF ~(\/ max_blank_lines # 0
                      \/ prev.indent_level < line.indent_level
                      \/ DocstringMatch(prev.logical_line))
                 THEN Error("E301", ColNone, NoContext) ELSE None
            ELSE IF max_blank_lines # 2
                 THEN Error("E302", ColInt(0), CountContext(max_blank_lines)) ELSE None
       ELSE None

\* EXTRANEOUS_WHITESPACE_REGEX = [[({] | []}),;:] : whether it matches at k
ExtraneousMatchAt(s, k) ==
    /\ k + 1 < Len(s)
    /\ \/ At(s, k) \in {"[", "(", "{"} /\ At(s, k + 1) = " "
       \/ At(s, k) = " " /\ At(s, k + 1) \in {"]", "}", ")", ",", ";", ":"}

\* the loop over finditer, from offset k on
RECURSIVE ExtraneousWhitespaceFrom(_, _)
ExtraneousWhitespaceFrom(s, k) ==
    IF k + 1 >= Len(s) THEN None
    ELSE IF ~ExtraneousMatchAt(s, k) THEN ExtraneousWhitespaceFrom(s, k + 1)
    ELSE
    LET text == Slice(s, k, k + 2)
        char == strip(text)
        found == k
    IN IF text = char \o <<" ">> /\ contains(OPEN_PARENS, char)
       THEN Error("E201", ColInt(found + 1), TextContext(char))
       ELSE IF text = <<" ">> \o char /\ At(s, found - 1) # ","
               /\ contains(CLOSE_PARENS, char)
       THEN Error("E202", ColInt(found), TextContext(char))
       ELSE IF text = <<" ">> \o char /\ At(s, found - 1) # ","
               /\ contains(<<",", ";", ":">>, char)
       THEN Error("E203", ColInt(found), TextContext(char))
       ELSE ExtraneousWhitespaceFrom(s, k + 2)

ExtraneousWhitespace(line, previous_line, document) ==
    ExtraneousWhitespaceFrom(line.logical_line, 0)

RECURSIVE MissingWhitespaceAfterSeparatorFrom(_, _)
MissingWhitespaceAfterSeparatorFrom(s, index) ==
    IF index >= Len(s) - 1 THEN None
    ELSE
    LET char == At(s, index)
        before == Slice(s, 0, index)
    IN IF char \in {",", ";", ":"} /\ At(s, index + 1) \notin Chars(INDENTATION_WHITESPACE)
          /\ ~(char = ":" /\ count(before, "[") > count(before, "]"))
          /\ ~(char = "," /\ At(s, index + 1) = ")")
       THEN Error("E231", ColInt(index), TextContext(<<char>>))
       ELSE MissingWhitespaceAfterSeparatorFrom(s, index + 1)

MissingWhitespaceAfterSeparator(line, previous_line, document) ==
    MissingWhitespaceAfterSeparatorFrom(line.logical_line, 0)

\* Indentation.find_error with `<` for the `<=` of its E112 test
Indentation_strictly_less(line, previous_line, document) ==
    IF document.indent_char = " " /\ line.indent_level % 4 # 0
    THEN Error("E111", ColNone, NoContext)
    ELSE IF previous_line = <<>> THEN None
    ELSE
    LET prev == previous_line[1]
        indent_expect == endswith(prev.logical_line, <<":">>)
    IN IF indent_expect /\ line.indent_level < prev.indent_level
       THEN Error("E112", ColNone, NoContext)
       ELSE IF line.indent_level > prev.indent_level /\ ~indent_expect
       THEN Error("E113", ColNone, NoContext)
       ELSE None

Indentation(line, previous_line, document) ==
    IF document.indent_char = " " /\ line.indent_level % 4 # 0
    THEN Error("E111", ColNone, NoContext)
    ELSE IF previous_line = <<>> THEN None
    ELSE
    LET prev == previous_line[1]
        indent_expect == endswith(prev.logical_line, <<":">>)
    IN IF indent_expect /\ line.indent_level <= prev.indent_level
       THEN Error("E112", ColNone, NoContext)
       ELSE IF line.indent_level > prev.indent_level /\ ~indent_expect
       THEN Error("E113", ColNone, NoContext)
       ELSE None

\* the loop over tokens[1:], with the previous token
RECURSIVE WhitespaceBeforeParametersFrom(_, _)
WhitespaceBeforeParametersFrom(tokens, index) ==
    IF index >= Len(tokens) THEN None
    ELSE
    LET tk == At(tokens, index)
        prev == At(tokens, index - 1)
    IN IF /\ tk.type = "OP"
          /\ contains(<<"(", "[">>, tk.text)
          /\ tk.start # prev.end
          /\ (prev.type = "NAME" \/ contains(CLOSE_PARENS, prev.text))
          /\ (index < 2 \/ At(tokens, index - 2).text # <<"c", "l", "a", "s", "s">>)
          /\ ~iskeyword(prev.text)
       THEN Error("E211", ColTuple(prev.end), TextContext(tk.text))
       ELSE WhitespaceBeforeParametersFrom(tokens, index + 1)

\* tokens[0] raises IndexError on an empty token list
WhitespaceBeforeParameters(line, previous_line, document) ==
    WhitespaceBeforeParametersFrom(line.tokens, 1)

\* WHITESPACE_AROUND_OPERATOR_REGEX = ([^\w\s]*)\s*(\t|  )\s*([^\w\s]*)
\* tried at offset p: group 1 is the longest run of operator characters, the
\* first \s* is greedy, so group 2 is the last tab or pair of spaces of the
\* whitespace run that follows; m is the offset of group 2 in that run (-1:
\* no match at p).
RECURSIVE LastGapStart(_, _, _, _)
LastGapStart(s, q, w, m) ==
    IF m < 0 THEN -1
    ELSE IF At(s, q + m) = "\t" THEN m
    ELSE IF m + 1 < w /\ At(s, q + m) = " " /\ At(s, q + m + 1) = " " THEN m
    ELSE LastGapStart(s, q, w, m - 1)

RECURSIVE WhitespaceAroundOperatorFrom(_, _)
WhitespaceAroundOperatorFrom(s, p) ==
    IF p >= Len(s) THEN None
    ELSE
    LET n1 == RunLengthNot(s, p, WordChars \cup SpaceChars)
        q == p + n1
        w == RunLength(s, q, SpaceChars)
        m == LastGapStart(s, q, w, w - 1)
    IN IF m < 0 THEN WhitespaceAroundOperatorFrom(s, p + 1)
       ELSE
       LET before == Slice(s, p, q)
           whitespace == IF At(s, q + m) = "\t" THEN <<"\t">> ELSE <<" ", " ">>
           n3 == RunLengthNot(s, q + w, WordChars \cup SpaceChars)
           after == Slice(s, q + w, q + w + n3)
           offset == q + m
           tab == whitespace = <<"\t">>
       IN IF before \in OPERATORS
          THEN Error(IF tab THEN "E224" ELSE "E222", ColInt(offset), NoContext)
          ELSE IF after \in OPERATORS
          THEN Error(IF tab THEN "E223" ELSE "E221", ColInt(offset), NoContext)
          ELSE WhitespaceAroundOperatorFrom(s, q + w + n3)

WhitespaceAroundOperator(line, previous_line, document) ==
    WhitespaceAroundOperatorFrom(line.logical_line, 0)

\* the loop over the tokens; st = [parens, need_space, prev_type, prev_text,
\* prev_end], prev_end <<>> for None
RECURSIVE MissingWhitespaceAroundOperatorFrom(_, _)
MissingWhitespaceAroundOperatorFrom(tokens, st) ==
    IF tokens = <<>> THEN None
    ELSE
    LET tk == Head(tokens) IN
    IF tk.type \in {"NL", "NEWLINE", "ERRORTOKEN"}
    THEN MissingWhitespaceAroundOperatorFrom(Tail(tokens), st)
    ELSE
    LET parens == IF tk.text \in {<<"(">>, <<"l", "a", "m", "b", "d", "a">>} THEN st.parens + 1
                  ELSE IF tk.text = <<")">> THEN st.parens - 1
                  ELSE st.parens
        need1 ==
            IF st.need_space THEN tk.start = st.prev_end
            ELSE IF tk.type = "OP" /\ st.prev_end # <<>>
            THEN IF tk.text = <<"=">> /\ parens # 0 THEN FALSE
                 ELSE IF tk.text \in BINARY_OPERATORS THEN TRUE
                 ELSE IF tk.text \in UNARY_OPERATORS
                 THEN IF st.prev_type = "OP" THEN contains(CLOSE_PARENS, st.prev_text)
                      ELSE IF st.prev_type = "NAME"
                      THEN st.prev_text \notin E225NOT_KEYWORDS
                      ELSE TRUE
                 ELSE FALSE
            ELSE FALSE
        report ==
            IF st.need_space
            THEN tk.start = st.prev_end /\ ~(tk.text = <<">">> /\ st.prev_text = <<"<">>)
            ELSE tk.type = "OP" /\ st.prev_end # <<>> /\ need1 /\ tk.start = st.prev_end
    IN IF report THEN Error("E225", ColTuple(st.prev_end), NoContext)
       ELSE MissingWhitespaceAroundOperatorFrom(Tail(tokens),
                [parens |-> parens, need_space |-> need1, prev_type |-> tk.type,
                 prev_text |-> tk.text, prev_end |-> tk.end])

MissingWhitespaceAroundOperator(line, previous_line, document) ==
    MissingWhitespaceAroundOperatorFrom(line.tokens,
        [parens |-> 0, need_space |-> FALSE, prev_type |-> "OP",
         prev_text |-> <<>>, prev_end |-> <<>>])

\* the loop over ',;:'
RECURSIVE WhitespaceAroundCommaFrom(_, _)
WhitespaceAroundCommaFrom(s, separators) ==
    IF separators = <<>> THEN None
    ELSE
    LET separator == Head(separators)
        found_spaces == find(s, <<separator, " ", " ">>)
        found_tab == find(s, <<separator, "\t">>)
    IN IF found_spaces > -1 THEN Error("E241", ColInt(found_spaces + 1), TextContext(<<separator>>))
       ELSE IF found_tab > -1 THEN Error("E242", ColInt(found_tab + 1), TextContext(<<separator>>))
       ELSE WhitespaceAroundCommaFrom(s, Tail(separators))

WhitespaceAroundComma(line, previous_line, document) ==
    WhitespaceAroundCommaFrom(line.logical_line, <<",", ";", ":">>)

\* WHITESPACE_AROUND_NAMED_PARAMETER_REGEX = [()]|\s=[^=]|[^=!<>]=\s :
\* the length of its match at offset k (0: no match)
NamedParameterMatchLen(s, k) ==
    IF At(s, k) \in {"(", ")"} THEN 1
    ELSE IF k + 2 < Len(s) /\ At(s, k) \in SpaceChars /\ At(s, k + 1) = "="
            /\ At(s, k + 2) # "="
    THEN 3
    ELSE IF k + 2 < Len(s) /\ At(s, k) \notin {"=", "!", "<", ">"} /\ At(s, k + 1) = "="
            /\ At(s, k + 2) \in SpaceChars
    THEN 3
    ELSE 0

RECURSIVE WhitespaceAroundNamedParameterEqualsFrom(_, _, _)
WhitespaceAroundNamedParameterEqualsFrom(s, k, parens) ==
    IF k >= Len(s) THEN None
    ELSE
    LET n == NamedParameterMatchLen(s, k) IN
    IF n = 0 THEN WhitespaceAroundNamedParameterEqualsFrom(s, k + 1, parens)
    ELSE IF parens # 0 /\ n = 3 THEN Error("E251", ColInt(k), NoContext)
    ELSE WhitespaceAroundNamedParameterEqualsFrom(s, k + n,
            IF At(s, k) = "(" /\ n = 1 THEN parens + 1
            ELSE IF At(s, k) = ")" /\ n = 1 THEN parens - 1
            ELSE parens)

WhitespaceAroundNamedParameterEquals(line, previous_line, document) ==
    WhitespaceAroundNamedParameterEqualsFrom(line.logical_line, 0, 0)

\* the loop over the tokens; prev_end starts as (0, 0)
RECURSIVE WhitespaceAroundInlineCommentFrom(_, _, _)
WhitespaceAroundInlineCommentFrom(tokens, prev_end, document) ==
    IF tokens = <<>> THEN None
    ELSE
    LET tk == Head(tokens) IN
    IF tk.type = "NL"
    THEN WhitespaceAroundInlineCommentFrom(Tail(tokens), prev_end, document)
    ELSE IF tk.type = "COMMENT"
    THEN IF strip(Slice(source_line(tk, document), 0, tk.start[2])) = <<>>
         THEN WhitespaceAroundInlineCommentFrom(Tail(tokens), prev_end, document)
         ELSE IF \/ Len(tk.text) > 1 /\ startswith(tk.text, <<"#", " ", " ">>)
                 \/ ~startswith(tk.text, <<"#", " ">>)
         THEN Error("E262", ColTuple(tk.start), NoContext)
         ELSE IF prev_end[1] = tk.start[1] /\ tk.start[2] < prev_end[2] + 2
         THEN Error("E261", ColTuple(prev_end), NoContext)
         ELSE WhitespaceAroundInlineCommentFrom(Tail(tokens), prev_end, document)
    ELSE WhitespaceAroundInlineCommentFrom(Tail(tokens), tk.end, document)

WhitespaceAroundInlineComment(line, previous_line, document) ==
    WhitespaceAroundInlineCommentFrom(line.tokens, <<0, 0>>, document)

ImportsOnSeparateLines(line, previous_line, document) ==
    LET found == find(line.logical_line, <<",">>)
    IN IF startswith(line.logical_line, <<"i", "m", "p", "o", "r", "t", " ">>) /\ found > -1
       THEN Error("E401", ColInt(found), NoContext) ELSE None

\* re.search(r'\blambda\b', s)
SearchLambda(s) ==
    \E k \in 0..(Len(s) - 6) :
        /\ Slice(s, k, k + 6) = <<"l", "a", "m", "b", "d", "a">>
        /\ (k = 0 \/ At(s, k - 1) \notin WordChars)
        /\ (k + 6 = Len(s) \/ At(s, k + 6) \notin WordChars)

CompoundStatement(line, previous_line, document) ==
    LET s == line.logical_line
        found == find(s, <<":">>)
        before == Slice(s, 0, found)
        semicolon == find(s, <<";">>)
    IN IF /\ -1 < found /\ found < Len(s) - 1
          /\ count(before, "{") <= count(before, "}")
          /\ count(before, "[") <= count(before, "]")
          /\ ~SearchLambda(before)
       THEN Error("E701", ColInt(found), NoContext)
       ELSE IF -1 < semicolon THEN Error("E702", ColInt(semicolon), NoContext)
       ELSE None

Python3000HasKey(line, previous_line, document) ==
    LET pos == find(line.logical_line, <<".", "h", "a", "s", "_", "k", "e", "y", "(">>)
    IN IF pos > -1 THEN Error("W601", ColInt(pos), NoContext) ELSE None

\* RAISE_COMMA_REGEX = raise\s+\w+\s*(,) matched at the start of the line
Python3000RaiseComma(line, previous_line, document) ==
    LET s == line.logical_line
        a == 5
        n1 == RunLength(s, a, SpaceChars)
        b == a + n1
        n2 == RunLength(s, b, WordChars)
        c == b + n2
        n3 == RunLength(s, c, SpaceChars)
        d == c + n3
    IN IF startswith(s, <<"r", "a", "i", "s", "e">>) /\ n1 > 0 /\ n2 > 0 /\ d < Len(s) /\ At(s, d) = ","
       THEN Error("W602", ColInt(d), NoContext) ELSE None

Python3000NotEqual(line, previous_line, document) ==
    LET pos == find(line.logical_line, <<"<", ">">>)
    IN IF pos > -1 THEN Error("W603", ColInt(pos), NoContext) ELSE None

\* the grave accent (backtick) character, which a TLA+ string cannot hold
GRAVE == "GRAVE"

Python3000Backticks(line, previous_line, document) ==
    LET pos == find(line.logical_line, <<GRAVE>>)
    IN IF pos > -1 THEN Error("W604", ColInt(pos), NoContext) ELSE None

----------------------------------------------------------------------------
\* The registries and check_line

\* PHYSICAL_LINE_CHECKERS and LOGICAL_LINE_CHECKERS are sets of classes, which
\* the metaclass fills as the classes are defined.
PHYSICAL_LINE_CHECKERS ==
    {"TabsOrSpaces", "TabsObsolete", "TrailingWhitespace", "TrailingBlankLines",
     "MissingNewline", "MaximumLineLength"}
LOGICAL_LINE_CHECKERS ==
    {"BlankLines", "ExtraneousWhitespace", "MissingWhitespaceAfterSeparator",
     "Indentation", "WhitespaceBeforeParameters", "WhitespaceAroundOperator",
     "MissingWhitespaceAroundOperator", "WhitespaceAroundComma",
     "WhitespaceAroundNamedParameterEquals", "WhitespaceAroundInlineComment",
     "ImportsOnSeparateLines", "CompoundStatement", "Python3000HasKey",
     "Python3000RaiseComma", "Python3000NotEqual", "Python3000Backticks"}

\* `for checker_class in checker_classes` visits a set of classes in the
\* order of their hashes: any order, the same for the whole life of one
\* process and not the same in the next.  An order is the set of the pairs
\* <<a, b>> of classes with a visited before b.  The pairs of every two
\* classes make a total order; fewer pairs stand for every total order that
\* has them, and serve where the classes they leave open return None, so that
\* their places make no difference to the errors added.
NoOrder == {}

\* classes one after the other, none before a class that `order` puts
\* before it
RECURSIVE Ordered(_, _)
Ordered(classes, order) ==
    IF classes = {} THEN <<>>
    ELSE LET checker_class ==
                 CHOOSE c \in classes : \A d \in classes : <<d, c>> \notin order
         IN <<checker_class>> \o Ordered(classes \ {checker_class}, order)

\* the classes of a registry as the loop visits them under an order: the
\* classes the order has pairs of, and the others, whose places make no
\* difference
Iterate(registry, order) ==
    LET placed == registry \cap ({pair[1] : pair \in order}
                                 \cup {pair[2] : pair \in order})
    IN Ordered(placed, order) \o Ordered(registry \ placed, NoOrder)

\* the order that has the pairs of `order` and visits the classes of q in
\* the order of q, q agreeing with `order`
VisitedAs(order, q) ==
    LET classes == {q[k] : k \in 1..Len(q)}
                   \cup {pair[1] : pair \in order} \cup {pair[2] : pair \in order}
    IN order \cup
       {pair \in classes \X classes :
           \E i, j \in 1..Len(q) :
               /\ i < j
               /\ pair[1] = q[i] \/ <<pair[1], q[i]>> \in order
               /\ pair[2] = q[j] \/ <<q[j], pair[2]>> \in order}

\* the orders that have the pairs of `order` and a place for each of
\* `classes`, one for every sequence of the classes that agrees with `order`;
\* a class alone needs none
Placing(order, classes) ==
    IF \A c, d \in classes : c = d THEN {order}
    ELSE {VisitedAs(order, q) :
             q \in {a \in [1..Cardinality(classes) -> classes] :
                       \A i, j \in 1..Len(a) :
                           /\ i # j => a[i] # a[j]
                           /\ i < j => <<a[j], a[i]>> \notin order}}

\* how often each class occurs in a sequence of classes
Visits(checker_classes) ==
    [c \in {checker_classes[k] : k \in 1..Len(checker_classes)} |->
        Cardinality({k \in 1..Len(checker_classes) : checker_classes[k] = c})]

physical_find_error(checker_class, line, document) ==
    CASE checker_class = "TabsOrSpaces" -> TabsOrSpaces(line, document)
      [] checker_class = "TabsObsolete" -> TabsObsolete(line, document)
      [] checker_class = "TrailingWhitespace" -> TrailingWhitespace(line, document)
      [] checker_class = "TrailingBlankLines" -> TrailingBlankLines(line, document)
      [] checker_class = "MissingNewline" -> MissingNewline(line, document)
      [] checker_class = "MaximumLineLength" ->
            \* checker_class(**self.checker_config) with checker_config = {}:
            \* the constructor's default
            MaximumLineLength(DEFAULT_MAX_LINE_LENGTH, line, document)

logical_find_error(checker_class, line, previous_line, document) ==
    CASE checker_class = "BlankLines" -> BlankLines(line, previous_line, document)
      [] checker_class = "ExtraneousWhitespace" ->
            ExtraneousWhitespace(line, previous_line, document)
      [] checker_class = "MissingWhitespaceAfterSeparator" ->
            MissingWhitespaceAfterSeparator(line, previous_line, document)
      [] checker_class = "Indentation" -> Indentation(line, previous_line, document)
      [] checker_class = "WhitespaceBeforeParameters" ->
            WhitespaceBeforeParameters(line, previous_line, document)
      [] checker_class = "WhitespaceAroundOperator" ->
            WhitespaceAroundOperator(line, previous_line, document)
      [] checker_class = "MissingWhitespaceAroundOperator" ->
            MissingWhitespaceAroundOperator(line, previous_line, document)
      [] checker_class = "WhitespaceAroundComma" ->
            WhitespaceAroundComma(line, previous_line, document)
      [] checker_class = "WhitespaceAroundNamedParameterEquals" ->
            WhitespaceAroundNamedParameterEquals(line, previous_line, document)
      [] checker_class = "WhitespaceAroundInlineComment" ->
            WhitespaceAroundInlineComment(line, previous_line, document)
      [] checker_class = "ImportsOnSeparateLines" ->
            ImportsOnSeparateLines(line, previous_line, document)
      [] checker_class = "CompoundStatement" ->
            CompoundStatement(line, previous_line, document)
      [] checker_class = "Python3000HasKey" ->
            Python3000HasKey(line, previous_line, document)
      [] checker_class = "Python3000RaiseComma" ->
            Python3000RaiseComma(line, previous_line, document)
      [] checker_class = "Python3000NotEqual" ->
            Python3000NotEqual(line, previous_line, document)
      [] checker_class = "Python3000Backticks" ->
            Python3000Backticks(line, previous_line, document)

\* Results.add_error
add_error(errors, error) == Append(errors, error)

\* A recorded error: the error a checker returned, with error.line set.  The
\* line object is named by reference: a PhysicalLine by its line number, a
\* LogicalLine by its position among the LogicalLine objects created.
Recorded(error, kind, id) ==
    [code |-> error.code, column |-> error.column, context |-> error.context,
     line |-> [kind |-> kind, id |-> id]]

\* check_line for a PhysicalLine: the errors list after the loop
RECURSIVE check_physical_line(_, _, _, _)
check_physical_line(checker_classes, line, document, errors) ==
    IF checker_classes = <<>> THEN errors
    ELSE LET error == physical_find_error(Head(checker_classes), line, document)
         IN check_physical_line(Tail(checker_classes), line, document,
                IF error # None
                THEN add_error(errors, Recorded(error[1], "PhysicalLine", line.line_number))
                ELSE errors)

\* check_line for the LogicalLine object number id
RECURSIVE check_logical_line_until_none(_, _, _, _, _, _)
check_logical_line_until_none(checker_classes, line, id, previous_line, document, errors) ==
    IF checker_classes = <<>> THEN errors
    ELSE LET error == logical_find_error(Head(checker_classes), line, previous_line,
                                         document)
         IN IF error = None THEN errors
            ELSE check_logical_line_until_none(Tail(checker_classes), line, id,
                     previous_line, document,
                     add_error(errors, Recorded(error[1], "LogicalLine", id)))

RECURSIVE check_logical_line(_, _, _, _, _, _)
check_logical_line(checker_classes, line, id, previous_line, document, errors) ==
    IF checker_classes = <<>> THEN errors
    ELSE LET error == logical_find_error(Head(checker_classes), line, previous_line,
                                         document)
         IN check_logical_line(Tail(checker_classes), line, id, previous_line, document,
                IF error # None
                THEN add_error(errors, Recorded(error[1], "LogicalLine", id))
                ELSE errors)

\* What a logical checker's find_error raises instead of returning ("" when
\* it returns): WhitespaceBeforeParameters reads tokens[0] before its loop,
\* an IndexError on an empty token list.
logical_find_error_raises(checker_class, line) ==
    IF checker_class = "WhitespaceBeforeParameters" /\ line.tokens = <<>>
    THEN "IndexError" ELSE ""

\* Checker.check_line on a LogicalLine: the loop over the checker classes
\* ends with the first find_error that raises; `outcome` holds the errors
\* added and the exception
RECURSIVE check_line(_, _, _, _, _, _)
check_line(checker_classes, line, id, previous_line, document, outcome) ==
    IF checker_classes = <<>> THEN outcome
    ELSE
    LET checker_class == Head(checker_classes)
        raised == logical_find_error_raises(checker_class, line)
        error == logical_find_error(checker_class, line, previous_line, document)
    IN IF raised # "" THEN [outcome EXCEPT !.exception = raised]
       ELSE check_line(Tail(checker_classes), line, id, previous_line, document,
                [errors |-> IF error # None
                            THEN add_error(outcome.errors,
                                           Recorded(error[1], "LogicalLine", id))
                            ELSE outcome.errors,
                 exception |-> ""])

----------------------------------------------------------------------------
\* One run of Checker.check_all, step by step.  A frame holds what one run
\* works on: the Checker's document and the errors of its Results, the state
\* of the tokenizer generator (tz), the local variables of logical_lines
\* (blank_lines, blank_lines_before_comment, tokens, parens), the LogicalLine
\* objects created so far (objects; a LogicalLine is named by its position),
\* the previous_line of check_all (0 for None), and where the run stands (pc):
\*   "running"  logical_lines is in its for loop over the tokens
\*   "yielded"  logical_lines is suspended at its yield
\*   "resume"   the body of check_all's loop is done, the generator resumes
\*   "done"     check_all has returned
\*   "raised"   an exception (named by `exception`) has left check_all
\* calls is the history of the check_line calls made.

\* the lexemes the tokenizer finds in the text of a physical line.  In a
\* line of a test file that starts with #:, the comment ends before the first
\* carriage return or line feed (#[^\r\n]*); the line end is \n or \r\n
\* (\r?\n), and a carriage return that no line feed follows is an ERRORTOKEN
\* of its own.  A #: line that holds other text after a carriage return is
\* not one of the lines modelled.
Lexemes(line) ==
    LET length == CHOOSE n \in 0..Len(line) :
                      /\ \A i \in 1..n : line[i] \notin {"\r", "\n"}
                      /\ n < Len(line) => line[n + 1] \in {"\r", "\n"}
        rest == SliceFrom(line, length)
        eol == IF endswith(rest, <<"\r", "\n">>) THEN <<"\r", "\n">>
               ELSE IF endswith(rest, EOL) THEN EOL
               ELSE <<>>
        returns == Slice(rest, 0, Len(rest) - Len(eol))
    IN
    IF startswith(line, <<"#", ":">>) /\ Chars(returns) \subseteq {"\r"}
    THEN SrcLine(<<Item(<<>>, "COMMENT", Slice(line, 0, length))>>
                 \o [k \in 1..Len(returns) |-> Item(<<>>, "ERRORTOKEN", <<"\r">>)],
                 <<>>, eol)
    ELSE
    CHOOSE l \in TerminatedLines \cup UnterminatedLines \cup BlockLines \cup EndLines
             \cup BracketLines \cup OperatorLines :
        LineText(l) = line

LinesOf(src) == [k \in 1..Len(src) |-> LineText(src[k])]

\* Document.readline
Document_readline(document) ==
    [line |-> IF document.line_number < Len(document.lines)
              THEN document.lines[document.line_number + 1] ELSE <<>>,
     document |-> [document EXCEPT !.line_number = @ + 1]]

\* the state of tokenize.generate_tokens before its first readline
NewTokenizer ==
    [lnum |-> 0, parenlev |-> 0, indents |-> <<0>>, continued |-> FALSE,
     pending |-> <<>>, ended |-> FALSE, last_line |-> <<>>, in_order |-> TRUE]

\* Checker.__init__ and the entry of check_all and logical_lines
NewFrame(lines) ==
    [document |-> Document(lines), errors |-> <<>>, tz |-> NewTokenizer,
     blank_lines |-> 0, blank_lines_before_comment |-> 0, tokens |-> <<>>,
     parens |-> 0, objects |-> <<>>, previous_line |-> 0, pc |-> "running",
     exception |-> "", calls |-> <<>>]

\* Checker.readline_check_physical: the frame after the call; the line it
\* returns is f.tz.last_line of the result
readline_check_physical(f, order) ==
    LET r == Document_readline(f.document)
        line == r.line
        line_obj == [physical_line |-> line, line_number |-> r.document.line_number]
        checker_classes == Iterate(PHYSICAL_LINE_CHECKERS, order)
    IN IF line # <<>>
       THEN [f EXCEPT !.document = r.document,
                      !.errors = check_physical_line(checker_classes, line_obj,
                                                     r.document, f.errors),
                      !.calls = Append(@, [kind |-> "PhysicalLine",
                                           id |-> line_obj.line_number,
                                           previous_line |-> 0,
                                           checkers |-> Visits(checker_classes),
                                           first_error |-> Len(f.errors) + 1]),
                      !.tz.last_line = line]
       ELSE [f EXCEPT !.document = r.document, !.tz.last_line = line]

\* tokenize.generate_tokens on a line, tl being what its loop over the line
\* has produced: the tokens it emits.  Where a last line of whitespace only
\* ends the input (if pos == max: break), last_line still is the line read
\* before this one, f being the frame before readline.
generate_tokens_line(f, line, lnum, variant, tl) ==
    IF tl.outcome = "eof"
    THEN [toks |-> TokenizeEOF(lnum, f.tz, variant, f.tz.last_line).toks,
          parenlev |-> tl.parenlev, indents |-> tl.indents,
          continued |-> tl.continued, outcome |-> "ok", ended |-> TRUE]
    ELSE [toks |-> tl.toks, parenlev |-> tl.parenlev, indents |-> tl.indents,
          continued |-> tl.continued, outcome |-> tl.outcome, ended |-> FALSE]

\* tokenize.generate_tokens hands over the tokens t of the line it read, or
\* raises; g is the frame after readline.  in_order records that every token
\* so far was emitted for the line just read
generate_tokens_emit(f, g, lnum, t) ==
    IF t.outcome \in {"TokenError", "IndentationError"}
    THEN [g EXCEPT !.tz.lnum = lnum, !.pc = "raised", !.exception = t.outcome]
    ELSE [g EXCEPT !.tz = [lnum |-> lnum, parenlev |-> t.parenlev,
                           indents |-> t.indents, continued |-> t.continued,
                           pending |-> t.toks, ended |-> t.ended,
                           last_line |-> g.tz.last_line,
                           in_order |-> /\ f.tz.in_order
                                        /\ \A k \in 1..Len(t.toks) :
                                             t.toks[k].start[1] = lnum]]

\* tokenize.generate_tokens tokenizes the line readline returned (the
\* last_line of g, the frame after readline)
generate_tokens_tokenize(f, g, variant) ==
    LET previous_line_read == f.tz.last_line
        line == g.tz.last_line
        lnum == f.tz.lnum + 1
        eof == TokenizeEOF(lnum, f.tz, variant, previous_line_read)
    IN generate_tokens_emit(f, g, lnum,
           IF line = <<>>
           THEN [toks |-> eof.toks, parenlev |-> f.tz.parenlev,
                 indents |-> f.tz.indents, continued |-> f.tz.continued,
                 outcome |-> eof.outcome, ended |-> TRUE]
           ELSE generate_tokens_line(f, line, lnum, variant,
                    TokenizeLine(Lexemes(line), lnum, f.tz, variant)))

\* tokenize.generate_tokens asks for the next line and tokenizes it
generate_tokens_readline(f, variant, order) ==
    generate_tokens_tokenize(f, readline_check_physical(f, order), variant)

\* logical_lines_token with one change: "every NL" counts every NL token at
\* depth 0 as a blank line; "no max" overwrites blank_lines_before_comment
\* with blank_lines
logical_lines_token_changed(f, change) ==
    LET token == Head(f.tz.pending)
        tokens == Append(f.tokens, token)
        opened == IF token.type = "OP" /\ contains(OPEN_PARENS, token.text)
                  THEN f.parens + 1 ELSE f.parens
        parens == IF token.type = "OP" /\ contains(CLOSE_PARENS, token.text)
                  THEN opened - 1 ELSE opened
        g == [f EXCEPT !.tz.pending = Tail(@), !.tokens = tokens, !.parens = parens]
    IN IF token.type = "NEWLINE" /\ parens = 0
       THEN LET b == build_line_from_tokens(tokens, f.document.lines)
            IN IF b.raises # ""
               THEN [g EXCEPT !.pc = "raised", !.exception = b.raises]
               ELSE [g EXCEPT !.objects =
                                 Append(@, LogicalLine(b.full_logical_line, tokens,
                                                       f.blank_lines,
                                                       f.blank_lines_before_comment,
                                                       b.mapping)),
                              !.pc = "yielded"]
       ELSE IF token.type = "NL" /\ parens = 0
       THEN [g EXCEPT !.blank_lines = IF Len(tokens) <= 1 \/ change = "every NL"
                                     THEN @ + 1 ELSE @,
                      !.tokens = <<>>]
       ELSE IF token.type = "COMMENT"
       THEN LET token_start == token.start[2]
                alone == strip(Slice(source_line(token, f.document), 0, token_start))
                             = <<>>
            IN [g EXCEPT !.blank_lines_before_comment =
                             IF alone
                             THEN (IF change = "no max" THEN f.blank_lines
                                   ELSE Max(f.blank_lines, @))
                             ELSE @,
                         !.blank_lines = IF alone THEN 0 ELSE @,
                         !.tokens = IF endswith(token.text, <<"\n">>) /\ parens = 0
                                    THEN <<>> ELSE tokens]
       ELSE g

logical_lines_token_every_NL(f) == logical_lines_token_changed(f, "every NL")
logical_lines_token_no_max(f) == logical_lines_token_changed(f, "no max")

\* logical_lines at a NEWLINE token outside brackets, b being what
\* build_line_from_tokens returned: the LogicalLine is yielded
logical_lines_yield(f, g, tokens, b) ==
    IF b.raises # ""
    THEN [g EXCEPT !.pc = "raised", !.exception = b.raises]
    ELSE [g EXCEPT !.objects =
                      Append(@, LogicalLine(b.full_logical_line, tokens,
                                            f.blank_lines,
                                            f.blank_lines_before_comment,
                                            b.mapping)),
                   !.pc = "yielded"]

\* one iteration of the for loop of logical_lines, up to the yield if the
\* token closes a statement
logical_lines_token(f) ==
    LET token == Head(f.tz.pending)
        tokens == Append(f.tokens, token)
        opened == IF token.type = "OP" /\ contains(OPEN_PARENS, token.text)
                  THEN f.parens + 1 ELSE f.parens
        parens == IF token.type = "OP" /\ contains(CLOSE_PARENS, token.text)
                  THEN opened - 1 ELSE opened
        g == [f EXCEPT !.tz.pending = Tail(@), !.tokens = tokens, !.parens = parens]
    IN IF token.type = "NEWLINE" /\ parens = 0
       THEN logical_lines_yield(f, g, tokens,
                                build_line_from_tokens(tokens, f.document.lines))
       ELSE IF token.type = "NL" /\ parens = 0
       THEN [g EXCEPT !.blank_lines = IF Len(tokens) <= 1 THEN @ + 1 ELSE @,
                      !.tokens = <<>>]
       ELSE IF token.type = "COMMENT"
       THEN LET token_start == token.start[2]
                alone == strip(Slice(source_line(token, f.document), 0, token_start))
                             = <<>>
            IN [g EXCEPT !.blank_lines_before_comment =
                             IF alone THEN Max(f.blank_lines, @) ELSE @,
                         !.blank_lines = IF alone THEN 0 ELSE @,
                         !.tokens = IF endswith(token.text, <<"\n">>) /\ parens = 0
                                    THEN <<>> ELSE tokens]
       ELSE g

\* check_all_body with the assignment previous_line = logical_line left out
check_all_body_keeps_previous(f, order) ==
    LET id == Len(f.objects)
        logical_line == [f.objects[id] EXCEPT !.line_number = f.document.line_number]
        previous_line == IF f.previous_line = 0 THEN <<>>
                         ELSE <<f.objects[f.previous_line]>>
        checker_classes == Iterate(LOGICAL_LINE_CHECKERS, order)
    IN [f EXCEPT !.objects[id] = logical_line,
                 !.errors = check_logical_line(checker_classes, logical_line, id,
                                               previous_line, f.document, f.errors),
                 !.calls = Append(@, [kind |-> "LogicalLine", id |-> id,
                                      previous_line |-> f.previous_line,
                                      checkers |-> Visits(checker_classes),
                                      first_error |-> Len(f.errors) + 1]),
                 !.pc = "resume"]

\* check_all_body with line_number taken from the row of the statement's
\* first token instead of document.line_number
check_all_body_first_row(f, order) ==
    LET id == Len(f.objects)
        logical_line == [f.objects[id] EXCEPT
                            !.line_number = f.objects[id].tokens[1].start[1]]
        previous_line == IF f.previous_line = 0 THEN <<>>
                         ELSE <<f.objects[f.previous_line]>>
        checker_classes == Iterate(LOGICAL_LINE_CHECKERS, order)
    IN [f EXCEPT !.objects[id] = logical_line,
                 !.errors = check_logical_line(checker_classes, logical_line, id,
                                               previous_line, f.document, f.errors),
                 !.calls = Append(@, [kind |-> "LogicalLine", id |-> id,
                                      previous_line |-> f.previous_line,
                                      checkers |-> Visits(checker_classes),
                                      first_error |-> Len(f.errors) + 1]),
                 !.previous_line = id,
                 !.pc = "resume"]

\* the body of the for loop of check_all, for the line just yielded
check_all_body(f, order) ==
    LET id == Len(f.objects)
        logical_line == [f.objects[id] EXCEPT !.line_number = f.document.line_number]
        previous_line == IF f.previous_line = 0 THEN <<>>
                         ELSE <<f.objects[f.previous_line]>>
        checker_classes == Iterate(LOGICAL_LINE_CHECKERS, order)
    IN [f EXCEPT !.objects[id] = logical_line,
                 !.errors = check_logical_line(checker_classes, logical_line, id,
                                               previous_line, f.document, f.errors),
                 !.calls = Append(@, [kind |-> "LogicalLine", id |-> id,
                                      previous_line |-> f.previous_line,
                                      checkers |-> Visits(checker_classes),
                                      first_error |-> Len(f.errors) + 1]),
                 !.previous_line = id,
                 !.pc = "resume"]

\* logical_lines after its yield
logical_lines_resume(f) ==
    [f EXCEPT !.blank_lines = 0, !.blank_lines_before_comment = 0,
              !.tokens = <<>>, !.pc = "running"]

\* the token stream is exhausted: logical_lines ends and check_all returns
check_all_return(f) == [f EXCEPT !.pc = "done"]

\* Checker(lines=lines).check_all(): the frame at the end of the run
step(f, variant, order) ==
    IF f.pc = "yielded" THEN check_all_body(f, order)
    ELSE IF f.pc = "resume" THEN logical_lines_resume(f)
    ELSE IF f.tz.pending # <<>> THEN logical_lines_token(f)
    ELSE IF f.tz.ended THEN check_all_return(f)
    ELSE generate_tokens_readline(f, variant, order)

RECURSIVE run(_, _, _)
run(f, variant, order) ==
    IF f.pc \in {"done", "raised"} THEN f
    ELSE run(step(f, variant, order), variant, order)

check_all(lines, variant, order) == run(NewFrame(lines), variant, order)

\* The classes whose place in the order of the loop of check_line shows in
\* what the call does: those whose find_error returns an error or raises.
physical_showing(line, document) ==
    {c \in PHYSICAL_LINE_CHECKERS : physical_find_error(c, line, document) # None}
logical_showing(line, previous_line, document) ==
    {c \in LOGICAL_LINE_CHECKERS :
        IF logical_find_error_raises(c, line) # "" THEN TRUE
        ELSE logical_find_error(c, line, previous_line, document) # None}

\* the orders of a process, among those that have the pairs of `order`, that
\* the next step of a run of check_all tells apart: the places of the
\* classes that show in the check_line call of that step
step_orders(f, order) ==
    IF f.pc = "yielded"
    THEN LET id == Len(f.objects)
             logical_line == [f.objects[id] EXCEPT
                                 !.line_number = f.document.line_number]
             previous_line == IF f.previous_line = 0 THEN <<>>
                              ELSE <<f.objects[f.previous_line]>>
         IN Placing(order, logical_showing(logical_line, previous_line, f.document))
    ELSE IF f.pc = "resume" \/ f.tz.pending # <<>> \/ f.tz.ended THEN {order}
    ELSE LET r == Document_readline(f.document)
             line_obj == [physical_line |-> r.line,
                          line_number |-> r.document.line_number]
         IN IF r.line # <<>>
            THEN Placing(order, physical_showing(line_obj, r.document))
            ELSE {order}

\* the orders, among those that have the pairs of `order`, that a run of
\* check_all from frame f on tells apart
RECURSIVE run_orders(_, _, _)
run_orders(f, variant, order) ==
    IF f.pc \in {"done", "raised"} THEN {order}
    ELSE UNION {run_orders(step(f, variant, o), variant, o) :
                    o \in step_orders(f, order)}


\* CheckerError.location
location(error, objects) ==
    IF error.line.kind = "PhysicalLine"
    THEN physical_original_location_for_column(error.line.id, error.column)
    ELSE logical_original_location_for_column(objects[error.line.id], error.column)

\* what a caller sees of the recorded errors: code and resolved location
Diagnostics(errors, objects) ==
    [k \in 1..Len(errors) |->
        [code |-> errors[k].code, location |-> location(errors[k], objects)]]

----------------------------------------------------------------------------
\* The state machine: Checker instances in one process, each running
\* check_all on its own lines, their steps interleaved.

VARIABLES
    tokenizer,      \* which tokenizer the process runs on
    registry_order, \* the iteration order of the registries in this process,
                    \* as far as the calls made so far have shown it
    document,       \* the Document objects, by object
    results,        \* the errors list of the Results objects, by object
    tz,             \* per Checker: the state of its tokenizer generator
    blank_lines,    \* per Checker: the locals of its logical_lines generator
    blank_lines_before_comment,
    tokens,
    parens,
    objects,        \* per Checker: the LogicalLine objects yielded to it
    previous_line,  \* per Checker: previous_line of check_all
    pc,             \* per Checker: where its run stands
    exception,      \* per Checker: the exception that ended its run
    calls,          \* per Checker: history of its check_line calls
    call,           \* a function of the module called on its own: its arguments
    result          \* what that call returned

vars ==
    <<tokenizer, registry_order, document, results, tz, blank_lines,
      blank_lines_before_comment, tokens, parens, objects, previous_line, pc,
      exception, calls, call, result>>

\* the variables the Checkers work on
checker_vars ==
    <<tokenizer, document, results, tz, blank_lines,
      blank_lines_before_comment, tokens, parens, objects, previous_line, pc,
      exception, calls>>

\* no function is called on its own while Checkers run
NoCall == [fn |-> "", args |-> <<>>]
NoResult == [fn |-> "", value |-> <<>>]

\* every Checker working on the Document, or recording into the Results, of
\* the first one, as when the object is created once and shared
Checker_document_shared(self) == 1
Checker_results_shared(self) == 1

\* Checker.__init__: self.document = Document(lines) and self.results =
\* Results() give every Checker objects of its own
Checker_document(self) == self
Checker_results(self) == self

Checkers == DOMAIN pc

\* the frame Checker `self` works on
Frame(self) ==
    [document |-> document[Checker_document(self)],
     errors |-> results[Checker_results(self)],
     tz |-> tz[self],
     blank_lines |-> blank_lines[self],
     blank_lines_before_comment |-> blank_lines_before_comment[self],
     tokens |-> tokens[self],
     parens |-> parens[self],
     objects |-> objects[self],
     previous_line |-> previous_line[self],
     pc |-> pc[self],
     exception |-> exception[self],
     calls |-> calls[self]]

Store(self, f) ==
    /\ document' = [document EXCEPT ![Checker_document(self)] = f.document]
    /\ results' = [results EXCEPT ![Checker_results(self)] = f.errors]
    /\ tz' = [tz EXCEPT ![self] = f.tz]
    /\ blank_lines' = [blank_lines EXCEPT ![self] = f.blank_lines]
    /\ blank_lines_before_comment' =
           [blank_lines_before_comment EXCEPT ![self] = f.blank_lines_before_comment]
    /\ tokens' = [tokens EXCEPT ![self] = f.tokens]
    /\ parens' = [parens EXCEPT ![self] = f.parens]
    /\ objects' = [objects EXCEPT ![self] = f.objects]
    /\ previous_line' = [previous_line EXCEPT ![self] = f.previous_line]
    /\ pc' = [pc EXCEPT ![self] = f.pc]
    /\ exception' = [exception EXCEPT ![self] = f.exception]
    /\ calls' = [calls EXCEPT ![self] = f.calls]
    /\ UNCHANGED <<tokenizer, call, result>>

\* the state after the Checkers of `instances` have been constructed, each on
\* the lines of one of `sources`, in a process that runs one of the tokenizer
\* `variants` and whose registries iterate in an order that no call has shown
\* yet
InitOf(instances, sources, variants) ==
    /\ tokenizer \in variants
    /\ registry_order = NoOrder
    /\ \E src \in [instances -> sources] :
         /\ document = [self \in instances |-> NewFrame(LinesOf(src[self])).document]
    /\ results = [self \in instances |-> <<>>]
    /\ tz = [self \in instances |-> NewTokenizer]
    /\ blank_lines = [self \in instances |-> 0]
    /\ blank_lines_before_comment = [self \in instances |-> 0]
    /\ tokens = [self \in instances |-> <<>>]
    /\ parens = [self \in instances |-> 0]
    /\ objects = [self \in instances |-> <<>>]
    /\ previous_line = [self \in instances |-> 0]
    /\ pc = [self \in instances |-> "running"]
    /\ exception = [self \in instances |-> ""]
    /\ calls = [self \in instances |-> <<>>]
    /\ call = NoCall
    /\ result = NoResult

\* the tokenizer of `self` needs a line: readline_check_physical is called
ReadLine(self) ==
    /\ pc[self] = "running"
    /\ tz[self].pending = <<>>
    /\ ~tz[self].ended
    /\ \E order \in step_orders(Frame(self), registry_order) :
           /\ Store(self, generate_tokens_readline(Frame(self), tokenizer, order))
           /\ registry_order' = order

\* logical_lines of `self` takes the next token
Token(self) ==
    /\ pc[self] = "running"
    /\ tz[self].pending # <<>>
    /\ Store(self, logical_lines_token(Frame(self)))
    /\ UNCHANGED registry_order

\* check_all of `self` handles the line yielded
CheckLogical(self) ==
    /\ pc[self] = "yielded"
    /\ \E order \in step_orders(Frame(self), registry_order) :
           /\ Store(self, check_all_body(Frame(self), order))
           /\ registry_order' = order

\* logical_lines of `self` continues after its yield
Resume(self) ==
    /\ pc[self] = "resume"
    /\ Store(self, logical_lines_resume(Frame(self)))
    /\ UNCHANGED registry_order

\* the tokens of `self` are exhausted: check_all returns
Return(self) ==
    /\ pc[self] = "running"
    /\ tz[self].pending = <<>>
    /\ tz[self].ended
    /\ Store(self, check_all_return(Frame(self)))
    /\ UNCHANGED registry_order

Next ==
    \/ \E self \in Checkers : ReadLine(self)
    \/ \E self \in Checkers : Token(self)
    \/ \E self \in Checkers : CheckLogical(self)
    \/ \E self \in Checkers : Resume(self)
    \/ \E self \in Checkers : Return(self)

\* one Checker on a source file of up to MaxLines lines
Init == InitOf({1}, Sources, TokenizerVariants)
Spec == Init /\ [][Next]_vars

\* two Checkers in one process, each on a source file of up to MaxLinesTwo
\* lines, their steps interleaved in any order; the last line of a file may
\* be whitespace without a terminator, where two physical checkers both
\* return an error and the order of the registry shows
MaxLinesTwo == 2
SourcesTwo ==
    {Append(q, x) : q \in SeqsUpTo({L_if, L_ind_tight}, MaxLinesTwo - 1),
                    x \in {L_if, L_ind_tight, L_noeol_spaces}}
InitTwo == InitOf({1, 2}, SourcesTwo, {"py27"})
SpecTwo == InitTwo /\ [][Next]_vars

\* One Checker on a source file made of a statement, a gap of blank lines
\* (with or without a comment line in it) and a second statement, inside a
\* class body or not; on two statements of different indentation; and on the
\* short files below that exercise single checkers and the line builder.
MaxBlank == 3
Blanks(k) == [i \in 1..k |-> L_blank]
Gaps ==
    {Blanks(k) : k \in 0..MaxBlank}
    \cup {g \in {Blanks(k) \o <<L_comment>> \o Blanks(j) :
                    k \in 0..MaxBlank, j \in 0..MaxBlank} : Len(g) <= MaxBlank + 1}
GapSources ==
    {prefix \o <<first>> \o gap \o <<current>> :
        prefix \in {<<>>, <<L_class>>},
        first \in {L_deco, L_ind_deco, L_def, L_assign, L_ind_assign, L_doc},
        gap \in Gaps,
        current \in {L_def, L_class, L_deco, L_assign, L_ind_def, L_ind_deco,
                     L_ind_assign}}
IndentSources ==
    {<<first, current>> :
        first \in {L_assign, L_if, L_ind2_if, L_ind_assign},
        current \in {L_assign, L_ind2_assign, L_ind_assign, L_ind8_assign,
                     L_tabs_assign}}
\* a block header and two statements of its body, indented with spaces or
\* with tabs
TabSources ==
    {<<L_if_eq, first, second>> :
        first \in {L_ind8_assign, L_tab_assign},
        second \in {L_tab_b, L_ind8_b, L_mixed_b}}
\* a statement and a last line that ends with or without whitespace and with
\* or without a terminator
EndSources ==
    {<<L_assign, last>> :
        last \in {L_assign, L_noeol, L_trail, L_noeol_trail, L_noeol_tab,
                  L_noeol_spaces}}
\* a call whose first line ends with the open bracket, with an argument or
\* with a comma, and whose second line starts with an argument or with the
\* close bracket
BracketSources ==
    {<<first, second>> :
        first \in {L_call_open, L_call_arg, L_call_comma},
        second \in {L_close, L_unbal}}
\* statements with operators: one statement, and a statement that starts with
\* a unary operator as the body of a block and after that body
OperatorSources ==
    {<<l>> : l \in {L_i_eq, L_x_times, L_a_minus, L_neg, L_kwarg, L_lambda, L_minus_a}}
    \cup {<<L_if, L_ind_minus_a>>, <<L_if, L_ind_assign, L_minus_a>>}
SourcesBlocks ==
    GapSources \cup IndentSources \cup TabSources \cup EndSources \cup BracketSources
    \cup OperatorSources
InitBlocks == InitOf({1}, SourcesBlocks, {"py27"})
SpecBlocks == InitBlocks /\ [][Next]_vars

----------------------------------------------------------------------------
\* Functions of the module called on their own, as the doctests call them:
\* `call` holds the function and its arguments, `result` what it returned.

\* str.split(sep) for a one-character separator
RECURSIVE split_from(_, _, _)
split_from(s, sep, piece) ==
    IF s = <<>> THEN <<piece>>
    ELSE IF Head(s) = sep THEN <<piece>> \o split_from(Tail(s), sep, <<>>)
    ELSE split_from(Tail(s), sep, Append(piece, Head(s)))

split(s, sep) == split_from(s, sep, <<>>)

DEFAULT_IGNORE == <<"E", "2", "4">>

\* process_options: options.select and options.ignore, from the values of
\* --select and --ignore (both default to '') and whether --testsuite is given
process_options(select, ignore, testsuite) ==
    LET selected == IF select # <<>> THEN split(select, ",") ELSE <<>>
    IN [select |-> selected,
        ignore |-> IF ignore # <<>> THEN split(ignore, ",")
                   ELSE IF selected # <<>> THEN << <<>> >>
                   ELSE IF testsuite THEN <<>>
                   ELSE split(DEFAULT_IGNORE, ",")]

\* the first loop of ignore_code that hits returns: True, False, or None when
\* the function falls off its end
RECURSIVE ignore_loop(_, _)
ignore_loop(code, ignores) ==
    IF ignores = <<>> THEN "None"
    ELSE IF startswith(code, Head(ignores)) THEN "True"
    ELSE ignore_loop(code, Tail(ignores))

RECURSIVE select_loop(_, _, _)
select_loop(code, selects, ignores) ==
    IF selects = <<>> THEN ignore_loop(code, ignores)
    ELSE IF startswith(code, Head(selects)) THEN "False"
    ELSE select_loop(code, Tail(selects), ignores)

\* ignore_code with the loop over options.ignore in front
ignore_code_ignore_first(code, options) ==
    IF ignore_loop(code, options.ignore) = "True" THEN "True"
    ELSE select_loop(code, options.select, <<>>)

ignore_code(code, options) == select_loop(code, options.select, options.ignore)

\* values of --select and --ignore, and diagnostic codes
OptionValues ==
    {<<>>, <<"E">>, <<"W">>, <<"E", "2">>, <<"E", "2", "4">>,
     <<"E", "2", ",", "W">>, <<"E", "2", "4", ",", "E", "5">>, <<"E", ",">>}
Codes ==
    {<<"E", "2", "4", "1">>, <<"E", "2", "2", "5">>, <<"E", "5", "0", "1">>,
     <<"W", "2", "9", "1">>}

Calls_ignore_code ==
    {[fn |-> "ignore_code",
      args |-> [select |-> s, ignore |-> i, testsuite |-> t, code |-> c]] :
        s \in OptionValues, i \in OptionValues, t \in BOOLEAN, c \in Codes}

\* process_options, then ignore_code(code)
Call_ignore_code ==
    /\ call.fn = "ignore_code"
    /\ result.fn = NoResult.fn
    /\ LET options == process_options(call.args.select, call.args.ignore,
                                      call.args.testsuite)
       IN result' = [fn |-> "ignore_code",
                     value |-> [options |-> options,
                                returned |-> ignore_code(call.args.code, options)]]
    /\ UNCHANGED <<checker_vars, registry_order, call>>

PASS == <<" ", " ", " ", " ", "p", "a", "s", "s">>
A_EQ_1 == <<"a", " ", "=", " ", "1">>

\* a line without tokens checked as the first line and after another line
Calls_check_line ==
    {[fn |-> "check_line",
      args |-> [text |-> t, previous_line |-> p, lines |-> <<A_EQ_1 \o EOL>>]] :
        t \in {<<>>}, p \in {<<>>, <<A_EQ_1>>, <<PASS>>}}

\* Checker(lines=lines).check_line(line, previous_line), line and
\* previous_line being LogicalLine(text, tokens=[], blank_lines=0,
\* blank_lines_before_comment=0, token_offset_mapping=[])
Call_check_line ==
    /\ call.fn = "check_line"
    /\ result.fn = NoResult.fn
    /\ LET line == LogicalLine(call.args.text, <<>>, 0, 0, <<>>)
           previous == IF call.args.previous_line = <<>> THEN <<>>
                       ELSE <<LogicalLine(call.args.previous_line[1], <<>>, 0, 0, <<>>)>>
       IN \E order \in Placing(registry_order,
                                logical_showing(line, previous,
                                                Document(call.args.lines))) :
              /\ result' = [fn |-> "check_line",
                            value |-> check_line(Iterate(LOGICAL_LINE_CHECKERS, order),
                                                 line, 1, previous,
                                                 Document(call.args.lines),
                                                 [errors |-> <<>>, exception |-> ""])]
              /\ registry_order' = order
    /\ UNCHANGED <<checker_vars, call>>

\* String literals: prefix letters, a quote delimiter, a body of up to
\* MaxBody characters, and the delimiter again.
MaxBody == 2
StringPrefixes == {<<>>, <<"r">>, <<"u">>, <<"u", "r">>}
QuoteDelimiters ==
    {<<"'">>, <<"\"">>, <<"'", "'", "'">>, <<"\"", "\"", "\"">>}
BodyChars == {"a", "x", " ", "'", "\"", "\\"}

\* where the literal that opens with `quote` closes in s, from index k on: the
\* first occurrence of the delimiter that no backslash escapes (-1: nowhere)
RECURSIVE closing(_, _, _)
closing(s, k, quote) ==
    IF k + Len(quote) > Len(s) THEN -1
    ELSE IF At(s, k) = "\\" THEN closing(s, k + 2, quote)
    ELSE IF Slice(s, k, k + Len(quote)) = quote THEN k
    ELSE closing(s, k + 1, quote)

\* the literal is one STRING token: it closes with its last delimiter
WellFormed(quote, body) == closing(body \o quote, 0, quote) = Len(body)

Calls_mute_string ==
    {c \in {[fn |-> "mute_string", args |-> [prefix |-> p, quote |-> q, body |-> b]] :
                p \in StringPrefixes,
                q \in QuoteDelimiters,
                b \in SeqsUpTo(BodyChars, MaxBody)} :
        WellFormed(c.args.quote, c.args.body)}

LiteralText(args) == args.prefix \o args.quote \o args.body \o args.quote

\* mute_string(text), and mute_string of what it returned
Call_mute_string ==
    /\ call.fn = "mute_string"
    /\ result.fn = NoResult.fn
    /\ LET muted == mute_string(LiteralText(call.args))
       IN result' = [fn |-> "mute_string",
                     value |-> [once |-> muted, twice |-> mute_string(muted)]]
    /\ UNCHANGED <<checker_vars, registry_order, call>>

\* Lines of up to MaxIndent characters that are spaces, tabs or a letter
MaxIndent == 4
IndentedTexts == SeqsUpTo({" ", "\t", "a"}, MaxIndent)

Calls_indentation_level ==
    {[fn |-> "indentation_level", args |-> t] : t \in IndentedTexts}

\* indentation_level(line)
Call_indentation_level ==
    /\ call.fn = "indentation_level"
    /\ result.fn = NoResult.fn
    /\ result' = [fn |-> "indentation_level", value |-> indentation_level(call.args)]
    /\ UNCHANGED <<checker_vars, registry_order, call>>

Calls_LogicalLine ==
    {[fn |-> "LogicalLine", args |-> t] : t \in IndentedTexts}

\* LogicalLine(text): tokens, blank_lines, blank_lines_before_comment and
\* token_offset_mapping keep their default, None
Call_LogicalLine ==
    /\ call.fn = "LogicalLine"
    /\ result.fn = NoResult.fn
    /\ result' = [fn |-> "LogicalLine",
                  value |-> LogicalLine(call.args, NoneObject, NoneObject,
                                        NoneObject, NoneObject)]
    /\ UNCHANGED <<checker_vars, registry_order, call>>

\* Results.contains_error_with_code
contains_error_with_code_first_only(errors, code) ==
    errors # <<>> /\ Head(errors).code = code

RECURSIVE contains_error_with_code(_, _)
contains_error_with_code(errors, code) ==
    IF errors = <<>> THEN FALSE
    ELSE Head(errors).code = code \/ contains_error_with_code(Tail(errors), code)

\* Results.errors_ignoring
RECURSIVE errors_ignoring(_, _)
errors_ignoring(errors, codes_to_ignore) ==
    IF errors = <<>> THEN <<>>
    ELSE (IF Head(errors).code \notin codes_to_ignore THEN <<Head(errors)>> ELSE <<>>)
         \o errors_ignoring(Tail(errors), codes_to_ignore)

\* str.split() without a separator: the words of s between runs of
\* whitespace, piece being the word that is being read
RECURSIVE split_whitespace(_, _)
split_whitespace(s, piece) ==
    IF s = <<>> THEN (IF piece = <<>> THEN <<>> ELSE <<piece>>)
    ELSE IF Head(s) \in WHITESPACE
    THEN (IF piece = <<>> THEN <<>> ELSE <<piece>>) \o split_whitespace(Tail(s), <<>>)
    ELSE split_whitespace(Tail(s), Append(piece, Head(s)))

\* the codes that the test files modelled declare, as they are written
CodeText ==
    [Okay |-> <<"O", "k", "a", "y">>,
     E101 |-> <<"E", "1", "0", "1">>,
     W191 |-> <<"W", "1", "9", "1">>,
     E225 |-> <<"E", "2", "2", "5">>,
     W291 |-> <<"W", "2", "9", "1">>,
     W292 |-> <<"W", "2", "9", "2">>]

\* the code that a word of a declaration is: the code of an error is held
\* as a string, the word is a sequence of characters
CodeNamed(word) == CHOOSE code \in DOMAIN CodeText : CodeText[code] = word

\* Checker.__init__: without lines (a test case that holds none) the lines
\* are those of the file
Checker_lines(lines, file) == IF lines = <<>> THEN file ELSE lines

\* run_tests after Checker(filename, testcase).check_all(), f being the frame
\* at the end of that run on `lines` and `declared` the codes of the
\* declaration: each code but Okay is looked for in the errors, the errors of
\* other codes are unexpected.  An exception of check_all leaves run_tests.
run_tests_found(f, declared, lines) ==
    LET codes == SelectSeq(declared, LAMBDA c : c # "Okay")
        found == [k \in 1..Len(codes) |-> contains_error_with_code(f.errors, codes[k])]
        extra_errors == errors_ignoring(f.errors, {codes[k] : k \in 1..Len(codes)})
    IN IF f.pc = "raised"
       THEN [declared |-> declared, lines |-> lines, exception |-> f.exception,
             errors |-> f.errors, found |-> <<>>, extra_errors |-> <<>>,
             unexpected |-> <<>>, failed |-> FALSE]
       ELSE [declared |-> declared, lines |-> lines, exception |-> "",
             errors |-> f.errors, found |-> found, extra_errors |-> extra_errors,
             unexpected |-> Diagnostics(extra_errors, f.objects),
             failed |-> (\E k \in 1..Len(codes) : ~found[k]) \/ extra_errors # <<>>]

\* run_tests at a line that starts with #:, st being the variables of the
\* loop, `case` what the check of the test case collected so far gives and
\* `line` the line: the test case is checked when codes are declared for it
\* and the line is not the first one, then the line's codes are taken and the
\* test case is emptied
run_tests_next(st, index, case, line) ==
    LET words == split_whitespace(line, <<>>)
        codes == [k \in 1..(Len(words) - 1) |-> CodeNamed(words[k + 1])]
    IN IF st.codes # <<>> /\ index > 0
       THEN IF case.exception # ""
            THEN [st EXCEPT !.cases = Append(@, case), !.exception = case.exception]
            ELSE [failed |-> st.failed \/ case.failed, line_offset |-> index,
                  codes |-> codes, testcase |-> <<>>,
                  cases |-> Append(st.cases, case), exception |-> ""]
       ELSE [st EXCEPT !.line_offset = index, !.codes = codes, !.testcase = <<>>]

\* the loop of run_tests over lines (the lines of the file and a last #:),
\* from the line at `index` on
RECURSIVE run_tests_loop(_, _, _, _, _, _)
run_tests_loop(lines, index, st, file, variant, order) ==
    IF index >= Len(lines) \/ st.exception # "" THEN st
    ELSE IF ~startswith(lines[index + 1], <<"#", ":">>)
    THEN run_tests_loop(lines, index + 1,
                        IF st.codes # <<>>
                        THEN [st EXCEPT !.testcase = Append(@, lines[index + 1])]
                        ELSE st,
                        file, variant, order)
    ELSE run_tests_loop(lines, index + 1,
                        run_tests_next(st, index,
                                       run_tests_found(check_all(Checker_lines(st.testcase, file),
                                                                 variant, order),
                                                       st.codes,
                                                       Checker_lines(st.testcase, file)),
                                       lines[index + 1]),
                        file, variant, order)

\* run_tests(filename), file being the lines that readlines(filename) gives:
\* what it returns (failed), the exception that leaves it, and what each
\* check of a test case gave
run_tests(file, variant, order) ==
    LET st == run_tests_loop(Append(file, <<"#", ":", "\n">>), 0,
                             [failed |-> FALSE, line_offset |-> 0, codes |-> <<"Okay">>,
                              testcase |-> <<>>, cases |-> <<>>, exception |-> ""],
                             file, variant, order)
    IN [failed |-> st.failed, exception |-> st.exception, cases |-> st.cases]

\* the orders, among those that have the pairs of `order`, that the runs of
\* check_all on each of `checked` in turn tell apart
RECURSIVE run_tests_orders(_, _, _)
run_tests_orders(checked, variant, order) ==
    IF checked = <<>> THEN {order}
    ELSE UNION {run_tests_orders(Tail(checked), variant, o) :
                    o \in run_orders(NewFrame(Head(checked)), variant, order)}

\* a line of a test file that declares codes
RECURSIVE DeclaredText(_)
DeclaredText(declared) ==
    IF declared = <<>> THEN <<>>
    ELSE <<" ">> \o CodeText[Head(declared)] \o DeclaredText(Tail(declared))
DeclarationLine(declared, trail, eol) ==
    SrcLine(<<Item(<<>>, "COMMENT", <<"#", ":">> \o DeclaredText(declared) \o trail)>>,
            <<>>, eol)

\* test cases, the codes declared for them and the files that hold them
MaxDeclared == 2
TestCases ==
    {<<L_assign>>, <<L_tight>>, <<L_tight, L_tight>>, <<L_assign, L_trail>>,
     <<L_if_eq, L_ind8_assign, L_tab_b>>, <<L_cont, L_blank>>}
Declarations == SeqsUpTo({"Okay", "E101", "W191", "E225", "W291"}, MaxDeclared)
TestFiles ==
    \* one declaration and its test case
    {<<DeclarationLine(d, <<>>, EOL)>> \o t : d \in Declarations, t \in TestCases}
    \* a declaration that no line follows
    \cup {<<DeclarationLine(d, trail, eol)>> :
              d \in {<<>>, <<"Okay">>, <<"W291">>, <<"W292">>},
              trail \in {<<>>, S1}, eol \in {EOL, <<>>}}
    \* lines before the first declaration, and no declaration at all
    \cup {t \o <<DeclarationLine(d, <<>>, EOL), L_tight>> :
              t \in {<<L_tight>>, <<L_assign, L_trail>>}, d \in {<<"Okay">>, <<"E225">>}}
    \cup {<<L_tight>>, <<L_assign>>}
    \* two declarations, the first without a line of its own
    \cup {<<DeclarationLine(d, <<>>, EOL), DeclarationLine(e, <<>>, EOL)>> \o t :
              d \in {<<"E225">>, <<"Okay">>, <<>>}, e \in {<<"Okay">>, <<"E225">>},
              t \in {<<L_tight>>, <<L_assign>>}}
    \* two test cases
    \cup {<<DeclarationLine(d, <<>>, EOL), L_tight, DeclarationLine(e, <<>>, EOL),
            L_assign, L_trail>> :
              d \in {<<"E225">>, <<"Okay">>}, e \in {<<"Okay">>, <<"W291">>}}
Calls_run_tests == {[fn |-> "run_tests", args |-> [file |-> f]] : f \in TestFiles}

\* run_tests on a test file
Call_run_tests ==
    /\ call.fn = "run_tests"
    /\ result.fn = NoResult.fn
    /\ \E order \in run_tests_orders(
                        LET cases == run_tests(LinesOf(call.args.file), tokenizer,
                                               registry_order).cases
                        IN [k \in 1..Len(cases) |-> cases[k].lines],
                        tokenizer, registry_order) :
           /\ result' = [fn |-> "run_tests",
                         value |-> run_tests(LinesOf(call.args.file), tokenizer, order)]
           /\ registry_order' = order
    /\ UNCHANGED <<checker_vars, call>>

\* no Checker is constructed; one function is called with one choice of
\* arguments, in a process whose registries iterate in an order that
\* no call has shown yet
InitUnit ==
    /\ tokenizer = "py27"
    /\ registry_order = NoOrder
    /\ document = <<>>
    /\ results = <<>>
    /\ tz = <<>>
    /\ blank_lines = <<>>
    /\ blank_lines_before_comment = <<>>
    /\ tokens = <<>>
    /\ parens = <<>>
    /\ objects = <<>>
    /\ previous_line = <<>>
    /\ pc = <<>>
    /\ exception = <<>>
    /\ calls = <<>>
    /\ \/ call \in Calls_ignore_code
       \/ call \in Calls_check_line
       \/ call \in Calls_mute_string
       \/ call \in Calls_indentation_level
       \/ call \in Calls_LogicalLine
       \/ call \in Calls_run_tests
    /\ result = NoResult

NextUnit ==
    \/ Call_ignore_code
    \/ Call_check_line
    \/ Call_mute_string
    \/ Call_indentation_level
    \/ Call_LogicalLine
    \/ Call_run_tests

SpecUnit == InitUnit /\ [][NextUnit]_vars

----------------------------------------------------------------------------
\* Properties of logical_lines (C1, C2)

\* logical_lines of `self` takes a token in this step
TokenArrives(self) ==
    /\ pc[self] = "running"
    /\ tz[self].pending # <<>>
    /\ tz'[self] # tz[self]

\* a token that build_line_from_tokens puts into the statement text
Contributing(token) == token.type \notin SKIP_TOKENS \cup {"ENDMARKER"}

\* C1: in logical_lines a logical line is yielded exactly when a NEWLINE token
\* arrives while the bracket-nesting depth is 0; the line is built from
\* exactly the tokens buffered since the last reset of the buffer and carries
\* the current blank_lines and blank_lines_before_comment; after the yield
\* both counters are 0 and the buffer is empty; a NEWLINE token that arrives
\* while the depth is greater than 0 yields no line and resets neither the
\* buffer nor the counters.
C1_YieldExactlyOnNewlineAtDepthZero ==
    [][\A self \in Checkers :
        /\ TokenArrives(self) =>
             LET token == Head(tz[self].pending)
                 buffered == Append(tokens[self], token)
             IN /\ (pc'[self] = "yielded")
                       <=> (token.type = "NEWLINE" /\ parens[self] = 0)
                /\ pc'[self] = "yielded" =>
                     /\ Len(objects'[self]) = Len(objects[self]) + 1
                     /\ LET line == Last(objects'[self])
                            built == build_line_from_tokens(
                                         buffered, document[Checker_document(self)].lines)
                        IN /\ line.tokens = buffered
                           /\ line.logical_line = built.full_logical_line
                           /\ line.token_offset_mapping = built.mapping
                           /\ line.blank_lines = blank_lines[self]
                           /\ line.blank_lines_before_comment =
                                  blank_lines_before_comment[self]
                /\ (token.type = "NEWLINE" /\ parens[self] > 0) =>
                     /\ pc'[self] # "yielded"
                     /\ tokens'[self] = buffered
                     /\ blank_lines'[self] = blank_lines[self]
                     /\ blank_lines_before_comment'[self] =
                            blank_lines_before_comment[self]
        /\ (pc[self] = "resume" /\ pc'[self] = "running") =>
             /\ blank_lines'[self] = 0
             /\ blank_lines_before_comment'[self] = 0
             /\ tokens'[self] = <<>>
      ]_vars

\* C2: when the token stream ends while the buffer of logical_lines still
\* holds contributing tokens that no NEWLINE at depth 0 has closed, the run
\* does not end normally: check_all returns only with a buffer that holds no
\* contributing token.
C2_UnterminatedBufferIsAnError ==
    \A self \in Checkers :
        pc[self] = "done" =>
            \A k \in 1..Len(tokens[self]) : ~Contributing(tokens[self][k])

----------------------------------------------------------------------------
\* Properties of the resolution of locations (C3, C4, C5)

\* the recorded errors of `self`
Errors(self) == results[Checker_results(self)]

\* the LogicalLine object a recorded error of `self` is about
LineOf(self, error) == objects[self][error.line.id]

\* the last entry (o, t) of a token_offset_mapping with o <= k
LastEntryUpTo(mapping, k) ==
    LET at == CHOOSE j \in 1..Len(mapping) :
                  /\ mapping[j].offset <= k
                  /\ \A i \in (j + 1)..Len(mapping) : mapping[i].offset > k
    IN mapping[at]

\* C3: a diagnostic on a logical line whose column is a plain integer offset k
\* resolves to (t.start.row, t.start.col + (k - o)), (o, t) the last entry of
\* the line's token_offset_mapping with o <= k; for a statement that spans
\* several rows this is the row of the token that holds the offset.
C3_IntegerOffsetResolvesThroughMapping ==
    \A self \in Checkers :
        \A n \in 1..Len(Errors(self)) :
            LET error == Errors(self)[n]
            IN (error.line.kind = "LogicalLine" /\ error.column.type = "int") =>
                 LET entry == LastEntryUpTo(LineOf(self, error).token_offset_mapping,
                                            error.column.col)
                 IN location(error, objects[self]) =
                        <<entry.token.start[1],
                          entry.token.start[2] + (error.column.col - entry.offset)>>

\* C4: a diagnostic on a logical line whose column is already a (row, column)
\* pair resolves to that pair unchanged, for every logical line, indented
\* ones and ones that span several rows included.
C4_PairColumnResolvesVerbatim ==
    \A self \in Checkers :
        \A n \in 1..Len(Errors(self)) :
            LET error == Errors(self)[n]
            IN (error.line.kind = "LogicalLine" /\ error.column.type = "tuple") =>
                 location(error, objects[self]) = <<error.column.row, error.column.col>>

\* C5: for every logical line the builder produced and every entry (o, t) of
\* its token_offset_mapping, resolving the integer offset o through the line
\* gives (t.start.row, t.start.col).
C5_MappingOffsetsResolveToTokenStarts ==
    \A self \in Checkers :
        \A n \in 1..Len(objects[self]) :
            LET line == objects[self][n]
            IN line.line_number # 0 =>
                 \A j \in 1..Len(line.token_offset_mapping) :
                     logical_original_location_for_column(
                         line, ColInt(line.token_offset_mapping[j].offset))
                       = line.token_offset_mapping[j].token.start

----------------------------------------------------------------------------
\* Properties of the order of the checks (C6, C7, C8)

\* the check_line calls of `self` for physical and for logical lines, in order
PhysicalCalls(self) == SelectSeq(calls[self], LAMBDA c : c.kind = "PhysicalLine")
LogicalCalls(self) == SelectSeq(calls[self], LAMBDA c : c.kind = "LogicalLine")

\* every member of the registry, and nothing else, is visited exactly once
EachOnce(visits, registry) ==
    /\ DOMAIN visits = registry
    /\ \A c \in registry : visits[c] = 1

\* the rows of the tokens of a LogicalLine
Rows(line) == {line.tokens[k].start[1] : k \in 1..Len(line.tokens)}

\* C6: during check_all every physical line i (1 <= i <= number of lines) is
\* passed to every physical-line checker exactly once, in increasing order of
\* i and with line_number = i, at the moment the tokenizer reads it (so that
\* the lines checked are always the lines read, and when check_all has ended
\* they are all lines); the end-of-input marker is never checked; and every
\* diagnostic of physical line r is recorded before any diagnostic of a
\* logical line whose tokens include a token of row r.
C6_PhysicalLinesCheckedOnceInOrder ==
    \A self \in Checkers :
        LET d == document[Checker_document(self)]
            physical == PhysicalCalls(self)
            errors == Errors(self)
        IN /\ Len(physical) = Min(d.line_number, d.num_lines)
           /\ \A k \in 1..Len(physical) :
                  /\ physical[k].id = k
                  /\ EachOnce(physical[k].checkers, PHYSICAL_LINE_CHECKERS)
           /\ pc[self] \in {"done", "raised"} => Len(physical) = d.num_lines
           /\ \A a, b \in 1..Len(errors) :
                  (/\ errors[a].line.kind = "PhysicalLine"
                   /\ errors[b].line.kind = "LogicalLine"
                   /\ errors[a].line.id \in Rows(LineOf(self, errors[b])))
                  => a < b

\* C7: within one file the logical lines are checked strictly in the order
\* they are yielded, each as soon as it is yielded; the k-th is checked with
\* previous_line the (k-1)-th line yielded and the first with none; a blank
\* line or a comment-only line never becomes the previous line: every
\* previous line is a statement, with at least one contributing token.
C7_LogicalLinesCheckedInYieldOrder ==
    \A self \in Checkers :
        LET logical == LogicalCalls(self)
        IN /\ Len(logical) =
                  Len(objects[self]) - (IF pc[self] = "yielded" THEN 1 ELSE 0)
           /\ \A k \in 1..Len(logical) :
                  /\ logical[k].id = k
                  /\ logical[k].previous_line = k - 1
                  /\ EachOnce(logical[k].checkers, LOGICAL_LINE_CHECKERS)
           /\ previous_line[self] = Len(logical)
           /\ \A k \in 1..Len(logical) :
                  logical[k].previous_line # 0 =>
                      \E j \in 1..Len(objects[self][logical[k].previous_line].tokens) :
                          Contributing(objects[self][logical[k].previous_line].tokens[j])

\* a second statement has been checked after a blank or comment-only line,
\* with the first statement as its previous line
C7_Witness ==
    \E self \in Checkers :
        /\ Len(LogicalCalls(self)) = 2
        /\ LogicalCalls(self)[2].previous_line = 1
        /\ objects[self][2].blank_lines + objects[self][2].blank_lines_before_comment > 0

\* C8: the line_number of every logical line handed to the logical checkers is
\* the row of the NEWLINE token that closed the statement, provided the
\* tokenizer has emitted the tokens of every physical line after reading that
\* line and before reading the next one.
C8_LineNumberIsNewlineRow ==
    \A self \in Checkers :
        tz[self].in_order =>
            \A k \in 1..Len(LogicalCalls(self)) :
                LET line == objects[self][LogicalCalls(self)[k].id]
                IN /\ Last(line.tokens).type = "NEWLINE"
                   /\ line.line_number = Last(line.tokens).start[1]

\* a statement that spans two rows has been checked, the tokenizer having
\* emitted every token for the line just read
C8_Witness ==
    \E self \in Checkers :
        /\ tz[self].in_order
        /\ \E k \in 1..Len(LogicalCalls(self)) :
               LET line == objects[self][LogicalCalls(self)[k].id]
               IN /\ Cardinality(Rows(line)) > 1
                  /\ line.line_number = Last(line.tokens).start[1]

----------------------------------------------------------------------------
\* Properties of two Checkers in one process (C9, C10)

\* check_all of `self` has ended, by returning or by raising
Ended(self) == pc[self] \in {"done", "raised"}

\* the lines `self` was constructed on
LinesGiven(self) == document[Checker_document(self)].lines

\* C9: running check_all twice on identical input lines, with two fresh
\* Checker instances and the same registry, gives the same sequence of
\* diagnostics: same codes, same resolved locations, same order (and the same
\* way of ending).
C9_SameInputSameDiagnostics ==
    \A a, b \in Checkers :
        (LinesGiven(a) = LinesGiven(b) /\ Ended(a) /\ Ended(b)) =>
            /\ pc[a] = pc[b]
            /\ exception[a] = exception[b]
            /\ Diagnostics(Errors(a), objects[a]) = Diagnostics(Errors(b), objects[b])

\* two Checkers have ended on the same lines, with a physical-line and a
\* logical-line diagnostic recorded, and with two diagnostics of one line
\* that the registry's order has put one after the other
C9_Witness ==
    \E a, b \in Checkers :
        /\ a # b
        /\ registry_order # NoOrder
        /\ LinesGiven(a) = LinesGiven(b)
        /\ Ended(a) /\ Ended(b)
        /\ \E m, n \in 1..Len(Errors(a)) :
               /\ Errors(a)[m].line.kind = "PhysicalLine"
               /\ Errors(a)[n].line.kind = "LogicalLine"

\* C10: two Checker instances on two files, their readline and check steps
\* interleaved in any order, each end with exactly the diagnostics of a run
\* alone; no step of one reads or writes the Document, the Results, the
\* blank-line counters, the token buffer or the previous-line state of the
\* other: a step changes what at most one Checker works on, and changes it
\* to what that Checker's own next step makes of it; and what a Checker ends
\* with is what its run alone ends with.
C10_InterleavedRunsAreIsolated ==
    /\ [](\A self \in Checkers :
            Ended(self) =>
                LET alone == check_all(LinesGiven(self), tokenizer, registry_order)
                IN /\ Frame(self) = alone
                   /\ Diagnostics(Errors(self), objects[self])
                          = Diagnostics(alone.errors, alone.objects))
    /\ [][/\ \A self \in Checkers :
                \/ Frame(self)' = Frame(self)
                \/ /\ ~Ended(self)
                   /\ Frame(self)' = step(Frame(self), tokenizer, registry_order')
          /\ \A a, b \in Checkers :
                (Frame(a)' # Frame(a) /\ Frame(b)' # Frame(b)) => a = b
        ]_vars

\* two Checkers have ended on different files, each with diagnostics recorded
C10_Witness ==
    \E a, b \in Checkers :
        /\ LinesGiven(a) # LinesGiven(b)
        /\ Ended(a) /\ Ended(b)
        /\ Errors(a) # <<>> /\ Errors(b) # <<>>
        /\ Errors(a) # Errors(b)

----------------------------------------------------------------------------
\* Properties of ignore_code (C11)

HasPrefixIn(code, prefixes) ==
    \E k \in 1..Len(prefixes) : startswith(code, prefixes[k])

\* C11: for every code and every select and ignore list that process_options
\* can build, ignore_code returns True exactly when the code starts with one
\* of the ignored prefixes and with none of the selected ones.
C11_SuppressedIffIgnoredAndNotSelected ==
    result.fn = "ignore_code" =>
        LET options == result.value.options
        IN result.value.returned = "True"
           <=> /\ HasPrefixIn(call.args.code, options.ignore)
               /\ ~HasPrefixIn(call.args.code, options.select)

\* a code that an ignored prefix covers while the select list, not empty,
\* does not: it is suppressed
C11_Witness ==
    /\ result.fn = "ignore_code"
    /\ result.value.options.select # <<>>
    /\ call.args.ignore # <<>>
    /\ HasPrefixIn(call.args.code, result.value.options.ignore)
    /\ ~HasPrefixIn(call.args.code, result.value.options.select)
    /\ result.value.returned = "True"

----------------------------------------------------------------------------
\* Properties of the logical checkers on a line without tokens (C12)

\* C12: when check_line is given a logical line whose token list is empty,
\* no find_error raises, every logical checker is run, and none of them
\* returns a diagnostic.
C12_EmptyTokensNeverRaise ==
    result.fn = "check_line" =>
        /\ result.value.exception = ""
        /\ result.value.errors = <<>>

----------------------------------------------------------------------------
\* Properties of the nesting depth (C13)

\* C13: logical_lines never goes on with a negative nesting depth: a close
\* bracket that arrives at depth 0 ends the run with an error, so no NEWLINE
\* token is ever taken while the depth is below 0 (where it would close no
\* statement).
C13_NoNewlineTakenAtNegativeDepth ==
    \A self \in Checkers :
        (/\ pc[self] = "running"
         /\ tz[self].pending # <<>>
         /\ Head(tz[self].pending).type = "NEWLINE") => parens[self] >= 0

----------------------------------------------------------------------------
\* Properties of build_line_from_tokens (C14, C15)

\* C14: for every buffer logical_lines hands to build_line_from_tokens, the
\* builder returns a mapping: it does not fail on a buffer of skipped tokens
\* only, the mapping is not empty and its offsets are strictly increasing.
C14_MappingNonEmptyAndIncreasing ==
    \A self \in Checkers :
        /\ exception[self] # "IndexError"
        /\ \A k \in 1..Len(objects[self]) :
             LET mapping == objects[self][k].token_offset_mapping
             IN /\ mapping # <<>>
                /\ \A i \in 1..(Len(mapping) - 1) :
                     mapping[i].offset < mapping[i + 1].offset

\* C15: the text of every LogicalLine built from a token buffer carries no
\* whitespace at either end, also when the statement is indented.
C15_TextIsStripped ==
    \A self \in Checkers :
        \A k \in 1..Len(objects[self]) :
            LET text == objects[self][k].logical_line
            IN /\ lstrip(text, WHITESPACE) = text
               /\ rstrip(text, WHITESPACE) = text

----------------------------------------------------------------------------
\* Properties of mute_string (C16)

\* C16: for a string literal (prefix letters, a quote delimiter, a body, the
\* same delimiter), mute_string returns a text of the same length that keeps
\* the prefix and both delimiters and has an 'x' for every character of the
\* body; muting that text again returns it unchanged.
C16_MuteStringKeepsShapeAndIsIdempotent ==
    result.fn = "mute_string" =>
        LET text == LiteralText(call.args)
            muted == result.value.once
        IN /\ Len(muted) = Len(text)
           /\ muted = call.args.prefix \o call.args.quote
                      \o Repeat("x", Len(call.args.body)) \o call.args.quote
           /\ result.value.twice = muted

\* a prefixed, triple-quoted literal whose body holds a quote character and
\* an escape was muted
C16_Witness ==
    /\ result.fn = "mute_string"
    /\ call.args.prefix # <<>>
    /\ Len(call.args.quote) = 3
    /\ call.args.body = <<"\\", Head(call.args.quote)>>
    /\ result.value.once # LiteralText(call.args)

----------------------------------------------------------------------------
\* Properties of indentation_level and of LogicalLine's indentation (C17)

\* how many characters of s stand before its first character that is neither
\* a space nor a tab
LeadingRun(s) ==
    CHOOSE n \in 0..Len(s) :
        /\ \A i \in 1..n : s[i] \in {" ", "\t"}
        /\ n < Len(s) => s[n + 1] \notin {" ", "\t"}

\* the column n leading characters of s reach: a space is one column, a tab
\* goes to the next multiple of 8
RECURSIVE ColumnAfter(_, _)
ColumnAfter(s, n) ==
    IF n = 0 THEN 0
    ELSE LET c == ColumnAfter(s, n - 1)
         IN IF s[n] = " " THEN c + 1 ELSE c + (8 - (c % 8))

\* C17: indentation_level returns the column its argument's leading run of
\* spaces and tabs reaches; a LogicalLine's indent_level is that column for
\* its text, and its dedented_line is the text without that leading run.
C17_IndentLevelIsExpandedColumn ==
    /\ result.fn = "indentation_level" =>
           result.value = ColumnAfter(call.args, LeadingRun(call.args))
    /\ result.fn = "LogicalLine" =>
           /\ result.value.logical_line = call.args
           /\ result.value.indent_level = ColumnAfter(call.args, LeadingRun(call.args))
           /\ result.value.dedented_line =
                  SubSeq(call.args, LeadingRun(call.args) + 1, Len(call.args))

\* a LogicalLine made of its text alone, which starts with a space and a tab
\* and has a space after its first letter
C17_Witness ==
    /\ result.fn = "LogicalLine"
    /\ call.args = <<" ", "\t", "a", " ">>
    /\ result.value.tokens = NoneObject
    /\ result.value.indent_level = 8
    /\ result.value.dedented_line = <<"a", " ">>

----------------------------------------------------------------------------
\* Properties of the BlankLines checker (C18, C19)

\* the blank-line diagnostics recorded for LogicalLine number k: the code, and
\* the number of blank lines given as context (-1: none given)
BlankLineErrors(self, k) ==
    {[code |-> Errors(self)[i].code, count |-> Errors(self)[i].context.count] :
        i \in {j \in 1..Len(Errors(self)) :
                 /\ Errors(self)[j].line = [kind |-> "LogicalLine", id |-> k]
                 /\ Errors(self)[j].code \in {"E301", "E302", "E303", "E304"}}}

\* the line starts a def, a class or a decorator
StartsDefinition(line) ==
    \/ startswith(line.dedented_line, <<"d", "e", "f", " ">>)
    \/ startswith(line.dedented_line, <<"c", "l", "a", "s", "s", " ">>)
    \/ startswith(line.dedented_line, <<"@">>)

\* C18: for a logical line that has a previous logical line, with m the larger
\* of blank_lines and blank_lines_before_comment: after a decorator line E304
\* is reported exactly when m > 0, and nothing else; otherwise E303 with m is
\* reported when m > 2, or m = 2 on an indented line; otherwise a top-level
\* def, class or decorator gets E302 with m exactly when m is not 2.  The
\* first statement gets no blank-line diagnostic.
C18_BlankLinesDecisionOrder ==
    \A self \in Checkers :
        \A c \in 1..Len(LogicalCalls(self)) :
            LET entry == LogicalCalls(self)[c]
                line == objects[self][entry.id]
                m == Max(line.blank_lines, line.blank_lines_before_comment)
                found == BlankLineErrors(self, entry.id)
            IN IF entry.previous_line = 0 THEN found = {}
               ELSE IF startswith(objects[self][entry.previous_line].dedented_line,
                                  <<"@">>)
               THEN found = IF m > 0 THEN {[code |-> "E304", count |-> -1]} ELSE {}
               ELSE IF m > 2 \/ (line.indent_level > 0 /\ m = 2)
               THEN found = {[code |-> "E303", count |-> m]}
               ELSE IF StartsDefinition(line) /\ line.indent_level = 0
               THEN found = IF m # 2 THEN {[code |-> "E302", count |-> m]} ELSE {}
               ELSE found \subseteq {[code |-> "E301", count |-> -1]}

\* a line that follows a decorator after more than two blank lines was
\* reported with E304 only
C18_Witness ==
    \E self \in Checkers :
        \E c \in 1..Len(LogicalCalls(self)) :
            LET entry == LogicalCalls(self)[c]
                line == objects[self][entry.id]
            IN /\ entry.previous_line # 0
               /\ startswith(objects[self][entry.previous_line].dedented_line, <<"@">>)
               /\ line.blank_lines > 2
               /\ BlankLineErrors(self, entry.id) = {[code |-> "E304", count |-> -1]}

\* C19: an indented def, class or decorator line with no blank line and no
\* blank-before-comment in front of it, whose previous logical line is not a
\* decorator, is reported with E301 unless the previous logical line is less
\* indented or is a docstring opener (its statement text starts with an
\* optional u, an optional r and a quote).
C19_MissingBlankLineUnlessDocstring ==
    \A self \in Checkers :
        \A c \in 1..Len(LogicalCalls(self)) :
            LET entry == LogicalCalls(self)[c]
                line == objects[self][entry.id]
                prev == objects[self][entry.previous_line]
            IN (/\ entry.previous_line # 0
                /\ line.indent_level > 0
                /\ StartsDefinition(line)
                /\ Max(line.blank_lines, line.blank_lines_before_comment) = 0
                /\ ~startswith(prev.dedented_line, <<"@">>))
               => ([code |-> "E301", count |-> -1] \in BlankLineErrors(self, entry.id)
                   <=> ~(\/ prev.indent_level < line.indent_level
                         \/ DocstringMatch(prev.dedented_line)))

----------------------------------------------------------------------------
\* Properties of the Indentation checker (C20)

\* the indentation diagnostics recorded for LogicalLine number k
IndentationErrors(self, k) ==
    {Errors(self)[i].code :
        i \in {j \in 1..Len(Errors(self)) :
                 /\ Errors(self)[j].line = [kind |-> "LogicalLine", id |-> k]
                 /\ Errors(self)[j].code \in {"E111", "E112", "E113"}}}

\* the indent character of the document is a space and the indent level of
\* the line is not a multiple of 4
NotMultipleOfFour(self, line) ==
    document[Checker_document(self)].indent_char = " " /\ line.indent_level % 4 # 0

\* the previous line ends with ':' and the line is not indented further
InsufficientIndentation(line, prev) ==
    endswith(prev.logical_line, <<":">>) /\ line.indent_level <= prev.indent_level

\* the line is indented further and the previous line does not end with ':'
UnexpectedIndentation(line, prev) ==
    line.indent_level > prev.indent_level /\ ~endswith(prev.logical_line, <<":">>)

\* C20 as stated: for every logical line with a predecessor, E112 is reported
\* whenever the predecessor ends with ':' and the line is not indented
\* further, E113 whenever the line is indented further and the predecessor
\* does not end with ':', and E111 whenever the indent character is a space
\* and the indent level is not a multiple of 4.
C20_EveryIndentationFaultReported ==
    \A self \in Checkers :
        \A c \in 1..Len(LogicalCalls(self)) :
            LET entry == LogicalCalls(self)[c]
                line == objects[self][entry.id]
                prev == objects[self][entry.previous_line]
                found == IndentationErrors(self, entry.id)
            IN entry.previous_line # 0 =>
                   /\ InsufficientIndentation(line, prev) => "E112" \in found
                   /\ UnexpectedIndentation(line, prev) => "E113" \in found
                   /\ NotMultipleOfFour(self, line) => "E111" \in found

\* C20 as amended: for every logical line with a predecessor, E111 is reported
\* whenever the indent character is a space and the indent level is not a
\* multiple of 4, and then neither E112 nor E113; otherwise E112 is reported
\* whenever the predecessor ends with ':' and the line is not indented
\* further, and E113 whenever the line is indented further and the
\* predecessor does not end with ':'.
C20_FirstIndentationFaultReported ==
    \A self \in Checkers :
        \A c \in 1..Len(LogicalCalls(self)) :
            LET entry == LogicalCalls(self)[c]
                line == objects[self][entry.id]
                prev == objects[self][entry.previous_line]
                found == IndentationErrors(self, entry.id)
            IN entry.previous_line # 0 =>
                   IF NotMultipleOfFour(self, line) THEN found = {"E111"}
                   ELSE /\ InsufficientIndentation(line, prev) => "E112" \in found
                        /\ UnexpectedIndentation(line, prev) => "E113" \in found

\* a line indented exactly as far as its predecessor, which ends with ':',
\* by a multiple of 4, was reported with E112
C20_Witness ==
    \E self \in Checkers :
        \E c \in 1..Len(LogicalCalls(self)) :
            LET entry == LogicalCalls(self)[c]
                line == objects[self][entry.id]
            IN /\ entry.previous_line # 0
               /\ ~NotMultipleOfFour(self, line)
               /\ InsufficientIndentation(line, objects[self][entry.previous_line])
               /\ line.indent_level = objects[self][entry.previous_line].indent_level
               /\ "E112" \in IndentationErrors(self, entry.id)


----------------------------------------------------------------------------
\* Properties of the indentation-character checkers (C21)

\* the columns of the diagnostics with code `code` recorded for physical line k
PhysicalErrors(self, k, code) ==
    {Errors(self)[i].column :
        i \in {j \in 1..Len(Errors(self)) :
                 /\ Errors(self)[j].line = [kind |-> "PhysicalLine", id |-> k]
                 /\ Errors(self)[j].code = code}}

\* C21: the run on 'if a == 0:', 8 spaces + 'a = 1', tab + 'b = 1' records
\* exactly one diagnostic, E101 at row 3, column 0; and for every physical
\* line checked, TabsOrSpaces reports E101 at the first column of the leading
\* indentation whose character differs from the document's indent_char, and
\* nothing when there is no such column.
C21_MixedTabsExampleGivesOnlyE101 ==
    \A self \in Checkers :
        /\ (Ended(self) /\ LinesGiven(self) = LinesOf(<<L_if_eq, L_ind8_assign, L_tab_b>>))
              => Diagnostics(Errors(self), objects[self])
                     = <<[code |-> "E101", location |-> <<3, 0>>]>>
        /\ \A c \in 1..Len(PhysicalCalls(self)) :
             LET k == PhysicalCalls(self)[c].id
                 doc == document[Checker_document(self)]
                 indent == IndentMatch(doc.lines[k])
                 differing == {o \in 0..(Len(indent) - 1) : At(indent, o) # doc.indent_char}
             IN PhysicalErrors(self, k, "E101")
                    = IF differing = {} THEN {}
                      ELSE {ColInt(CHOOSE o \in differing : \A q \in differing : o <= q)}

----------------------------------------------------------------------------
\* Properties of the MissingNewline checker (C22)

\* the physical line ends with a line terminator
Terminated(physical_line) ==
    physical_line # <<>> /\ Last(physical_line) \in {"\n", "\r"}

\* C22: for every physical line checked, W292 is reported if and only if the
\* line lacks a line terminator: also for a last line that ends with spaces
\* or tabs and has no terminator, and never for a line that ends with one.
C22_W292IffNoTerminator ==
    \A self \in Checkers :
        \A c \in 1..Len(PhysicalCalls(self)) :
            LET k == PhysicalCalls(self)[c].id
                physical_line == document[Checker_document(self)].lines[k]
            IN (PhysicalErrors(self, k, "W292") # {}) <=> ~Terminated(physical_line)

----------------------------------------------------------------------------
\* Properties of the regression check (C23)

\* the codes of a sequence of errors
CodesOf(errors) == {errors[k].code : k \in 1..Len(errors)}

\* the expected codes of a declaration
Expected(declared) == {declared[k] : k \in 1..Len(declared)} \ {"Okay"}

\* C23: for every test case that run_tests checks and whose run returns, and
\* every set C of expected codes, the regression check passes exactly when
\* the set of codes of the recorded diagnostics equals C:
\* contains_error_with_code(c) is true iff some recorded diagnostic has code
\* c, and errors_ignoring(C) returns, in recording order, exactly the
\* recorded diagnostics whose code is not in C; run_tests returns failed
\* exactly when the check of some test case did not pass.
C23_RegressionPassesIffCodesEqual ==
    result.fn = "run_tests"
    => /\ \A n \in 1..Len(result.value.cases) :
            LET v == result.value.cases[n]
                C == Expected(v.declared)
                codes == SelectSeq(v.declared, LAMBDA c : c # "Okay")
            IN v.exception = ""
               => /\ ~v.failed <=> CodesOf(v.errors) = C
                  /\ \A k \in 1..Len(codes) : v.found[k] <=> codes[k] \in CodesOf(v.errors)
                  /\ v.extra_errors = SelectSeq(v.errors, LAMBDA e : e.code \notin C)
       /\ result.value.exception = ""
          => (result.value.failed <=> \E n \in 1..Len(result.value.cases) :
                                          result.value.cases[n].failed)

\* a test case with two diagnostics of different codes was checked against a
\* declaration of both codes, written in the other order, and passed
C23_Witness ==
    /\ result.fn = "run_tests"
    /\ ~result.value.failed
    /\ \E n \in 1..Len(result.value.cases) :
           LET v == result.value.cases[n]
           IN /\ ~v.failed
              /\ Len(v.errors) = 2
              /\ v.declared = <<v.errors[2].code, v.errors[1].code>>
              /\ v.errors[1].code # v.errors[2].code

----------------------------------------------------------------------------
\* Properties of check_line within a run (C24)

\* what find_error of one checker class returns for the line of the call
\* `entry`, as check_line records it: nothing, or one error whose line is
\* the line checked
ReturnedBy(self, entry, checker_class) ==
    LET doc == document[Checker_document(self)]
        error == IF entry.kind = "PhysicalLine"
                 THEN physical_find_error(checker_class,
                          [physical_line |-> doc.lines[entry.id], line_number |-> entry.id],
                          doc)
                 ELSE logical_find_error(checker_class, objects[self][entry.id],
                          IF entry.previous_line = 0 THEN <<>>
                          ELSE <<objects[self][entry.previous_line]>>,
                          doc)
    IN IF error = None THEN <<>> ELSE <<Recorded(error[1], entry.kind, entry.id)>>

\* what the checker classes return for the line of `entry`, one after the other
RECURSIVE ReturnedByAll(_, _, _)
ReturnedByAll(self, entry, checker_classes) ==
    IF checker_classes = <<>> THEN <<>>
    ELSE ReturnedBy(self, entry, Head(checker_classes))
         \o ReturnedByAll(self, entry, Tail(checker_classes))

\* the errors the c-th check_line call of `self` added to the results
AddedBy(self, c) ==
    SubSeq(Errors(self), calls[self][c].first_error,
           IF c < Len(calls[self]) THEN calls[self][c + 1].first_error - 1
           ELSE Len(Errors(self)))

\* the c-th check_line call of `self` went through each class of the line's
\* registry once, added what the classes returned, one after the other in
\* the order of the process, and gave every error it added the line checked
\* as its origin
CalledEachOnce(self, c) ==
    LET entry == calls[self][c]
        registry == IF entry.kind = "PhysicalLine"
                    THEN PHYSICAL_LINE_CHECKERS ELSE LOGICAL_LINE_CHECKERS
    IN /\ EachOnce(entry.checkers, registry)
       /\ AddedBy(self, c) =
              ReturnedByAll(self, entry, Iterate(registry, registry_order))
       /\ \A k \in 1..Len(AddedBy(self, c)) :
              AddedBy(self, c)[k].line = [kind |-> entry.kind, id |-> entry.id]

\* The run of `self` stands between two check_line calls: after the call
\* for a logical line it is about to resume logical_lines; after the call for
\* a physical line it has taken every token of the line, waits at the yield
\* or has ended.  Each call is followed by such a state before the next call
\* is made.
BetweenCalls(self) ==
    IF calls[self][Len(calls[self])].kind = "LogicalLine" THEN pc[self] = "resume"
    ELSE pc[self] # "running" \/ tz[self].pending = <<>>

\* C24: for every line checked, each registered checker of the line's kind is
\* invoked exactly once and adds at most one diagnostic; a checker that
\* returns no diagnostic adds nothing and the remaining checkers still run
\* (the errors the call adds are what the checkers return, one after the
\* other); every diagnostic recorded has the line checked as its origin; and
\* the recorded diagnostics only grow: none is ever removed or reordered.
\* Stated for the check_line call made last, in the states between two
\* calls (every call is the last one when it is made, and until the next
\* call its errors are the end of the list), together with: every step keeps
\* the calls made and the errors recorded before it as they were.
C24_EveryCheckerOnceAndSinkGrows ==
    /\ [](\A self \in Checkers :
            (calls[self] # <<>> /\ BetweenCalls(self))
            => CalledEachOnce(self, Len(calls[self])))
    /\ [][\A self \in Checkers :
            /\ Len(Errors(self)) <= Len(Errors(self)')
            /\ SubSeq(Errors(self)', 1, Len(Errors(self))) = Errors(self)
            /\ Len(calls[self]) <= Len(calls'[self])
            /\ SubSeq(calls'[self], 1, Len(calls[self])) = calls[self]]_vars

\* a logical line was checked, one of its checkers returned no diagnostic and
\* two others each added one
C24_Witness ==
    \E self \in Checkers :
        \E c \in 1..Len(calls[self]) :
            LET entry == calls[self][c]
            IN /\ entry.kind = "LogicalLine"
               /\ \E checker_class \in LOGICAL_LINE_CHECKERS :
                      ReturnedBy(self, entry, checker_class) = <<>>
               /\ Len(AddedBy(self, c)) = 2

----------------------------------------------------------------------------
\* Properties of the blank-line counters of logical_lines (C25, C26)

\* C25: when an NL token arrives at nesting depth 0, blank_lines grows by
\* exactly 1 if the buffer holds no token other than this NL and is unchanged
\* otherwise, and the buffer is emptied in either case; when an NL token
\* arrives at a depth greater than 0, blank_lines is unchanged and the buffer
\* only gains the NL.
C25_NLCountsBlankLineAtDepthZero ==
    [][\A self \in Checkers :
        (TokenArrives(self) /\ Head(tz[self].pending).type = "NL") =>
            /\ parens[self] = 0 =>
                 /\ blank_lines'[self]
                        = blank_lines[self] + (IF tokens[self] = <<>> THEN 1 ELSE 0)
                 /\ tokens'[self] = <<>>
            /\ parens[self] > 0 =>
                 /\ blank_lines'[self] = blank_lines[self]
                 /\ tokens'[self] = Append(tokens[self], Head(tz[self].pending))
      ]_vars

\* two blank lines have been counted, and the NL token of a comment line that
\* followed them has emptied the buffer without being counted
C25_Witness ==
    \E self \in Checkers :
        /\ pc[self] = "running"
        /\ tokenizer = "py27"
        /\ tz[self].lnum = 3
        /\ tz[self].pending = <<>>
        /\ LinesGiven(self) = LinesOf(<<L_blank, L_blank, L_comment>>)
        /\ tokens[self] = <<>>
        /\ blank_lines[self] + blank_lines_before_comment[self] = 2

\* the text of the source line of a COMMENT token before the comment starts
\* is blank
CommentAlone(self, token) ==
    strip(Slice(source_line(token, document[Checker_document(self)]), 0, token.start[2]))
        = <<>>

\* C26: when a COMMENT token arrives whose source line is blank before the
\* comment's start column, blank_lines_before_comment becomes the maximum of
\* blank_lines and blank_lines_before_comment and blank_lines becomes 0; when
\* a COMMENT token arrives that follows other content on its line, both
\* counters are unchanged; and blank_lines_before_comment never decreases
\* between two statement boundaries (it is reset only when logical_lines is
\* resumed after a yield).
C26_CommentFoldsBlankLines ==
    [][\A self \in Checkers :
        /\ (TokenArrives(self) /\ Head(tz[self].pending).type = "COMMENT") =>
             IF CommentAlone(self, Head(tz[self].pending))
             THEN /\ blank_lines_before_comment'[self]
                        = Max(blank_lines[self], blank_lines_before_comment[self])
                  /\ blank_lines'[self] = 0
             ELSE /\ blank_lines_before_comment'[self] = blank_lines_before_comment[self]
                  /\ blank_lines'[self] = blank_lines[self]
        /\ ~(pc[self] = "resume" /\ pc'[self] = "running") =>
             blank_lines_before_comment'[self] >= blank_lines_before_comment[self]
      ]_vars

\* a second comment line has arrived after a blank line and a comment line:
\* the count folded at the first comment is kept, though blank_lines was 0
C26_Witness ==
    \E self \in Checkers :
        /\ pc[self] = "running"
        /\ tz[self].lnum = 3
        /\ tz[self].pending = <<>>
        /\ LinesGiven(self) = LinesOf(<<L_blank, L_comment, L_comment>>)
        /\ blank_lines_before_comment[self] = 1
        /\ blank_lines[self] = 0

----------------------------------------------------------------------------
\* Properties of the text build_line_from_tokens puts between tokens (C27)

\* the text of LogicalLine `line` between the j-th and the (j+1)-th token of
\* its mapping
Between(line, j) ==
    LET m == line.token_offset_mapping
    IN Slice(line.dedented_line, m[j].offset + Len(m[j].token.text), m[j + 1].offset)

\* the source text between two tokens of one row
SourceBetween(self, earlier, later) ==
    Slice(document[Checker_document(self)].lines[earlier.end[1]],
          earlier.end[2], later.start[2])

IsOpenBracket(char) == char \in {"(", "[", "{"}
IsCloseBracket(text) == text \in {<<")">>, <<"]">>, <<"}">>}

\* C27 as stated: between two consecutive contributing tokens on different
\* rows a single space is inserted, except that nothing is inserted when the
\* character ending the earlier token is an open bracket and the later token
\* is a close bracket (after a comma a space is always inserted); between two
\* contributing tokens of one row the source text between them is copied.
C27_SpaceUnlessOpenThenClose ==
    \A self \in Checkers :
        \A k \in 1..Len(objects[self]) :
            LET line == objects[self][k]
                m == line.token_offset_mapping
            IN \A j \in 1..(Len(m) - 1) :
                   LET earlier == m[j].token
                       later == m[j + 1].token
                   IN IF earlier.end[1] # later.start[1]
                      THEN Between(line, j)
                             = IF IsOpenBracket(Last(earlier.text))
                                  /\ IsCloseBracket(later.text)
                               THEN <<>> ELSE <<" ">>
                      ELSE Between(line, j) = SourceBetween(self, earlier, later)

\* C27 as amended: between two consecutive contributing tokens on different
\* rows a single space is inserted, except that nothing is inserted when the
\* character ending the earlier token is an open bracket or the later token
\* is a close bracket (after a comma a space is always inserted); between two
\* contributing tokens of one row the source text between them is copied.
C27_SpaceUnlessOpenOrClose ==
    \A self \in Checkers :
        \A k \in 1..Len(objects[self]) :
            LET line == objects[self][k]
                m == line.token_offset_mapping
            IN \A j \in 1..(Len(m) - 1) :
                   LET earlier == m[j].token
                       later == m[j + 1].token
                   IN IF earlier.end[1] # later.start[1]
                      THEN Between(line, j)
                             = IF /\ Last(earlier.text) # ","
                                  /\ \/ IsOpenBracket(Last(earlier.text))
                                     \/ IsCloseBracket(later.text)
                               THEN <<>> ELSE <<" ">>
                      ELSE Between(line, j) = SourceBetween(self, earlier, later)

\* a line was built in which an open bracket ends a row and a name starts the
\* next one, and nothing was put between them
C27_Witness ==
    \E self \in Checkers :
        \E k \in 1..Len(objects[self]) :
            LET m == objects[self][k].token_offset_mapping
            IN \E j \in 1..(Len(m) - 1) :
                   /\ m[j].token.end[1] # m[j + 1].token.start[1]
                   /\ m[j].token.text = <<"(">>
                   /\ m[j + 1].token.type = "NAME"
                   /\ Between(objects[self][k], j) = <<>>

----------------------------------------------------------------------------
\* Properties of the MissingWhitespaceAroundOperator checker (C28)

\* the tokens of a logical line that stand for text of the statement: not
\* the line ends, the error tokens and the indentation tokens
StatementTokens(line) ==
    SelectSeq(line.tokens,
              LAMBDA t : t.type \notin {"NL", "NEWLINE", "ERRORTOKEN", "INDENT", "DEDENT"})

\* the number of '(' still open at the i-th token
OpenParens(T, i) ==
    Cardinality({j \in 1..i : T[j].text = <<"(">>})
        - Cardinality({j \in 1..i : T[j].text = <<")">>})

\* the i-th token is an operator that needs whitespace on both sides: a
\* binary operator, but not '=' while a '(' is open; or one of + - * ** >>
\* that does not follow an operator other than a close bracket, a keyword,
\* or the start of the line
NeedsSpace(T, i) ==
    /\ T[i].type = "OP"
    /\ \/ T[i].text \in BINARY_OPERATORS /\ ~(T[i].text = <<"=">> /\ OpenParens(T, i) > 0)
       \/ /\ T[i].text \in UNARY_OPERATORS
          /\ i > 1
          /\ ~(T[i - 1].type = "OP" /\ ~IsCloseBracket(T[i - 1].text))
          /\ ~(T[i - 1].type = "NAME" /\ T[i - 1].text \in E225NOT_KEYWORDS)

TouchesBefore(T, i) == i > 1 /\ T[i].start = T[i - 1].end
TouchesAfter(T, i) ==
    /\ i < Len(T)
    /\ T[i + 1].start = T[i].end
    /\ ~(T[i].text = <<"<">> /\ T[i + 1].text = <<">">>)

\* the end positions of the tokens before the gaps that are missing
MissingWhitespace(T) ==
    {T[i - 1].end : i \in {j \in 1..Len(T) : NeedsSpace(T, j) /\ TouchesBefore(T, j)}}
    \cup {T[i].end : i \in {j \in 1..Len(T) : /\ NeedsSpace(T, j)
                                              /\ ~TouchesBefore(T, j)
                                              /\ TouchesAfter(T, j)}}

\* the columns of the E225 diagnostics recorded for LogicalLine number k
E225Errors(self, k) ==
    {Errors(self)[i].column :
        i \in {j \in 1..Len(Errors(self)) :
                 /\ Errors(self)[j].line = [kind |-> "LogicalLine", id |-> k]
                 /\ Errors(self)[j].code = "E225"}}

\* C28: for every logical line checked, E225 is reported at the end position
\* of the token before the gap for every binary operator token that touches
\* the token before it or the token after it, and nothing is reported when
\* every binary operator has whitespace on both sides; exempt are only '='
\* while a '(' is open, unary + - * ** >> after an operator other than a
\* close bracket, after a keyword or at the start of the line, and '>'
\* directly after '<'.
C28_E225ForEveryTouchingOperator ==
    \A self \in Checkers :
        \A c \in 1..Len(LogicalCalls(self)) :
            LET k == LogicalCalls(self)[c].id
                T == StatementTokens(objects[self][k])
            IN E225Errors(self, k) = {ColTuple(p) : p \in MissingWhitespace(T)}

----------------------------------------------------------------------------
\* Properties of the offsets of the mapping within the text (C29)

\* the text build_line_from_tokens puts into the line for a token
TextInLine(token) == IF token.type = "STRING" THEN mute_string(token.text) ELSE token.text

\* C29: for every logical line yielded and every entry (offset, token) of its
\* token_offset_mapping, the line's logical_line holds the token's text
\* (muted for a STRING token) from index offset on, also when the statement
\* is indented in the source.
C29_TextHoldsTokenAtItsOffset ==
    \A self \in Checkers :
        \A k \in 1..Len(objects[self]) :
            LET line == objects[self][k]
                m == line.token_offset_mapping
            IN \A j \in 1..Len(m) :
                   Slice(line.logical_line, m[j].offset,
                         m[j].offset + Len(TextInLine(m[j].token)))
                       = TextInLine(m[j].token)

----------------------------------------------------------------------------
\* Properties of the blank lines a logical line carries (C30)

\* the row of the first token of the statement of a LogicalLine, and the row
\* of the NEWLINE token that ends it
FirstRow(line) == line.token_offset_mapping[1].token.start[1]
LastRow(line) == Last(line.tokens).start[1]

\* the length of the longest run of blank lines among the rows from..to of
\* `lines`; a line that is not blank ends a run
RECURSIVE LongestBlankRun(_, _, _, _, _)
LongestBlankRun(lines, from, to, current, longest) ==
    IF from > to THEN Max(current, longest)
    ELSE IF strip(lines[from]) = <<>>
    THEN LongestBlankRun(lines, from + 1, to, current + 1, longest)
    ELSE LongestBlankRun(lines, from + 1, to, 0, Max(current, longest))

\* the longest run of blank lines between the statement before LogicalLine
\* number k and its own statement
BlankRunBefore(self, k) ==
    LongestBlankRun(LinesGiven(self),
                    IF k = 1 THEN 1 ELSE LastRow(objects[self][k - 1]) + 1,
                    FirstRow(objects[self][k]) - 1, 0, 0)

\* LogicalLine number k has been checked, with a previous line
CheckedAfterAnother(self, k) ==
    \E c \in 1..Len(LogicalCalls(self)) :
        LogicalCalls(self)[c].id = k /\ LogicalCalls(self)[c].previous_line # 0

\* C30: for every logical line yielded, the larger of blank_lines and
\* blank_lines_before_comment is the length of the longest run of blank
\* physical lines since the statement before, where comment lines separate
\* the runs; and BlankLines works with that number: a top-level def, class or
\* decorator whose longest run is 2, not after a decorator, gets no
\* blank-line diagnostic, whatever the length of the last run.
C30_LongestBlankRunIsCarried ==
    \A self \in Checkers :
        \A k \in 1..Len(objects[self]) :
            LET line == objects[self][k]
            IN /\ Max(line.blank_lines, line.blank_lines_before_comment)
                      = BlankRunBefore(self, k)
               /\ (/\ CheckedAfterAnother(self, k)
                   /\ BlankRunBefore(self, k) = 2
                   /\ StartsDefinition(line)
                   /\ line.indent_level = 0
                   /\ ~startswith(objects[self][k - 1].dedented_line, <<"@">>))
                  => BlankLineErrors(self, k) = {}

\* a top-level definition after two blank lines, a comment line and one
\* blank line was checked and got no blank-line diagnostic
C30_Witness ==
    \E self \in Checkers :
        \E k \in 2..Len(objects[self]) :
            LET line == objects[self][k]
            IN /\ CheckedAfterAnother(self, k)
               /\ line.blank_lines = 1
               /\ line.blank_lines_before_comment = 2
               /\ BlankRunBefore(self, k) = 2
               /\ StartsDefinition(line)
               /\ line.indent_level = 0
               /\ ~startswith(objects[self][k - 1].dedented_line, <<"@">>)
               /\ BlankLineErrors(self, k) = {}

====
